---------------------------- MODULE Spec2Model ----------------------------
(***************************************************************************)
(* The plugin loader of bot-core (src/src/Pluginloader3.ts) as a state     *)
(* machine.  Every asynchronous call of the loader is a process whose      *)
(* steps are the pieces of code between two awaits; the timers set by      *)
(* setTimeout(.., 0) form a FIFO queue and run one at a time.              *)
(*                                                                         *)
(* A file name or plugin identifier is a sequence of tokens, e.g.          *)
(* <<"a", "t", ".plugin", ".js">> for at.plugin.js, so that the            *)
(* case-insensitive substring tests of the code are computed.              *)
(***************************************************************************)
EXTENDS Integers, Sequences, FiniteSets, TLC

\* Number of calls the callers of the loader issue in one run.
MaxCalls == 3

-----------------------------------------------------------------------------
(* Strings *)

\* String.prototype.toLowerCase, token by token
Lower(t) == IF t = "B" THEN "b" ELSE t

\* a.toLowerCase().includes(b.toLowerCase())
Includes(hay, needle) ==
    \E off \in 0..(Len(hay) - Len(needle)) :
        \A k \in 1..Len(needle) : Lower(hay[off + k]) = Lower(needle[k])

-----------------------------------------------------------------------------
(* Plugin files and their __meta blocks *)

FileA == <<"a", ".plugin", ".js">>
FileB == <<"b", ".plugin", ".js">>
FileC == <<"c", ".plugin", ".js">>
FileK == <<"k", ".plugin", ".js">>
FileO == <<"o", ".plugin", ".js">>
FileV == <<"v", ".plugin", ".js">>
FileAt == <<"a", "t", ".plugin", ".js">>
FileCat == <<"c", "a", "t", ".plugin", ".js">>
FileX == <<"x", ".plugin", ".js">>
FileM == <<"m", ".plugin", ".js">>
FileL == <<"l", ".plugin", ".js">>
FileT == <<"t", ".plugin", ".js">>
FileP == <<"p", ".plugin", ".js">>
FileQ == <<"q", ".plugin", ".js">>
\* a file of the plugin directory that is no plugin (no .plugin marker)
FileReadme == <<"b", ".js">>

AllFiles == {FileA, FileB, FileC, FileK, FileO, FileV, FileAt, FileCat, FileX, FileM, FileL,
             FileT, FileP, FileQ}

\* the loader's apiVersion option, <<major, minor>>
LoaderApiVersion == <<1, 0>>

AnyVersion == [any |-> TRUE, major |-> 0, minor |-> 0]
Caret(ma, mi) == [any |-> FALSE, major |-> ma, minor |-> mi]

\* semver.satisfies(version, range) for the ranges "*" and "^major.minor.0"
Satisfies(version, range) ==
    \/ range.any
    \/ version[1] = range.major /\ version[2] >= range.minor

Dep(n, s, o) == [name |-> n, state |-> s, optional |-> o, version |-> AnyVersion]

Meta(api, deps, stay) ==
    [apiVersion |-> api, version |-> <<1, 0>>, pluginDependencies |-> deps,
     stayLoadedOnDependencyLoss |-> stay]

\* The __meta block each plugin file exports.  pluginDependencies keeps the
\* declaration order of the object's keys.
MetaOf(f) ==
    CASE f = FileA   -> Meta(Caret(1, 0), <<Dep(<<"B">>, "started", FALSE)>>, FALSE)
      [] f = FileB   -> Meta(Caret(1, 0), <<>>, FALSE)
      [] f = FileC   -> Meta(Caret(1, 0), <<Dep(FileB, "started", FALSE)>>, FALSE)
      [] f = FileK   -> Meta(Caret(1, 0), <<Dep(FileB, "started", FALSE)>>, TRUE)
      [] f = FileO   -> Meta(Caret(1, 0), <<Dep(<<"nope">>, "loaded", TRUE)>>, FALSE)
      [] f = FileV   -> Meta(Caret(2, 0), <<>>, FALSE)
      [] f = FileAt  -> Meta(Caret(1, 0), <<>>, FALSE)
      [] f = FileCat -> Meta(Caret(1, 0), <<>>, FALSE)
      [] f = FileX   -> Meta(Caret(1, 0), <<Dep(<<"a", "t">>, "started", FALSE)>>, FALSE)
      [] f = FileL   -> Meta(Caret(1, 0), <<Dep(FileB, "loaded", FALSE)>>, FALSE)
      [] f = FileT   -> Meta(Caret(1, 0), <<Dep(FileB, "loaded", FALSE)>>, FALSE)
      [] f = FileM   -> Meta(Caret(1, 0), <<Dep(FileB, "started", FALSE),
                                            Dep(<<"nope">>, "loaded", FALSE)>>, FALSE)
      [] f = FileP   -> Meta(Caret(1, 0), <<Dep(FileQ, "started", FALSE)>>, FALSE)
      [] f = FileQ   -> Meta(Caret(1, 0), <<Dep(FileP, "loaded", FALSE)>>, FALSE)

\* the plugin files whose load() rejects
LoadThrows(f) == f = FileT

\* The identifier a caller names a plugin file by: its name without
\* the marker and the extension.
ShortId(f) == SubSeq(f, 1, Len(f) - 2)

\* a call a caller may issue; wait: the caller issues it only once the loader
\* is at rest (all it awaits has settled and no timer is pending)
CallOf(op, f, tgt) == [op |-> op, id |-> ShortId(f), tgt |-> tgt, wait |-> FALSE]

AtRest(c) == [c EXCEPT !.wait = TRUE]

\* every lifecycle call on a plugin file
AllCalls(f) ==
    {CallOf("load", f, "none"), CallOf("load", f, "started"), CallOf("start", f, "none"),
     CallOf("stop", f, "none"), CallOf("unload", f, "none")}

\* MaxCalls calls in a row, each one any call of the set `calls`
Free(calls) == [k \in 1..MaxCalls |-> calls]

\* A caller that takes the dependency b away and brings it back while c
\* depends on it, one call after the other, each once the loader is at rest.
RestoreScript ==
    << {AtRest(CallOf("load", FileB, "started"))}, {AtRest(CallOf("load", FileC, "started"))},
       {AtRest(CallOf("stop", FileB, "none"))}, {AtRest(CallOf("unload", FileB, "none"))},
       {AtRest(CallOf("load", FileB, "started"))} >>

\* A caller that stops and restarts the dependency b, which l requires only
\* loaded, then takes b away and brings it back, one call after the other, each
\* once the loader is at rest.
StopOnlyScript ==
    << {AtRest(CallOf("load", FileB, "started"))}, {AtRest(CallOf("load", FileL, "started"))},
       {AtRest(CallOf("stop", FileB, "none"))}, {AtRest(CallOf("start", FileB, "none"))},
       {AtRest(CallOf("stop", FileB, "none"))}, {AtRest(CallOf("unload", FileB, "none"))},
       {AtRest(CallOf("load", FileB, "none"))} >>

\* A caller that stops the dependency b while c depends on it and unloads it
\* as soon as the stop has returned, without waiting for the loader to rest.
HastyScript ==
    << {AtRest(CallOf("load", FileB, "started"))}, {AtRest(CallOf("load", FileC, "started"))},
       {AtRest(CallOf("stop", FileB, "none"))}, {CallOf("unload", FileB, "none")} >>

\* The same caller with two dependants of b brought up: c, which requires b
\* started, and l, which requires b loaded.
SiblingScript ==
    << {AtRest(CallOf("load", FileB, "started"))}, {AtRest(CallOf("load", FileC, "started"))},
       {AtRest(CallOf("load", FileL, "none"))},
       {AtRest(CallOf("stop", FileB, "none"))}, {CallOf("unload", FileB, "none")} >>

\* A caller that brings up b and its dependant c, takes c down again, and
\* then stops and restarts b, one call after the other, each once the loader
\* is at rest.
WithdrawScript ==
    << {AtRest(CallOf("load", FileB, "started"))}, {AtRest(CallOf("load", FileC, "started"))},
       {AtRest(CallOf("stop", FileC, "none"))}, {AtRest(CallOf("unload", FileC, "none"))},
       {AtRest(CallOf("stop", FileB, "none"))}, {AtRest(CallOf("start", FileB, "none"))} >>

\* a call through the management surface the loader hands to its plugins
ApiCall(fn, f) == [op |-> fn, id |-> ShortId(f), tgt |-> "none", wait |-> FALSE]

\* the four lifecycle functions of the management surface, on a plugin file
ApiCalls(f) ==
    {ApiCall("api.load", f), ApiCall("api.unload", f), ApiCall("api.start", f),
     ApiCall("api.stop", f)}

\* the two ways to load a plugin file
Loads(f) == {CallOf("load", f, "none"), CallOf("load", f, "started")}

\* the calls that take a plugin file through its whole life cycle
Cycle(f) == AllCalls(f) \ {CallOf("load", f, "none")}

\* The runs checked: a plugin directory (in fs.readdir order) and, call by
\* call, the calls the callers of the loader choose from.
Scenarios ==
    { [dir |-> <<FileB, FileC>>,
       script |-> Free(AllCalls(FileB) \cup AllCalls(FileC))],
      [dir |-> <<FileB, FileC>>, script |-> RestoreScript],
      [dir |-> <<FileA, FileB, FileReadme>>,
       script |-> Free(Cycle(FileB) \cup {CallOf("load", FileA, "started")})],
      [dir |-> <<FileB, FileK>>,
       script |-> Free(Cycle(FileB) \cup {CallOf("load", FileK, "started")})],
      [dir |-> <<FileO, FileV>>,
       script |-> Free(AllCalls(FileO) \cup AllCalls(FileV))],
      [dir |-> <<FileAt, FileCat>>,
       script |-> Free((AllCalls(FileAt) \ Loads(FileAt)) \cup Loads(FileCat))],
      [dir |-> <<FileAt, FileCat, FileX>>,
       script |-> Free(Cycle(FileCat) \cup {CallOf("load", FileX, "none")})],
      [dir |-> <<FileB, FileC>>,
       script |-> Free(ApiCalls(FileB) \cup {CallOf("load", FileB, "started")})],
      [dir |-> <<FileB, FileL>>, script |-> StopOnlyScript],
      [dir |-> <<FileB, FileT>>,
       script |-> << {AtRest(CallOf("load", FileB, "none"))}, {AtRest(CallOf("load", FileT, "none"))},
                     {AtRest(CallOf("unload", FileB, "none"))} >>],
      [dir |-> <<FileB, FileC, FileReadme>>, script |-> HastyScript],
      [dir |-> <<FileB, FileM>>,
       script |-> << {CallOf("load", FileM, "none")}, {CallOf("load", FileB, "started")},
                     {AtRest(CallOf("load", FileM, "none"))} >>],
      [dir |-> <<FileB, FileC, FileL>>, script |-> SiblingScript],
      [dir |-> <<FileB, FileC>>, script |-> WithdrawScript],
      [dir |-> <<FileB, FileP, FileQ>>,
       script |-> << {CallOf("load", FileP, "started")}, {CallOf("load", FileQ, "started")},
                     {CallOf("load", FileB, "started")} >>] }

-----------------------------------------------------------------------------
(* The loader's state *)

VARIABLES
    dir,             \* the files of the plugin directory, in readdir order
    resolverTable,   \* identifier -> canonical file name (the resolver cache)
    loadedPlugins,   \* keys of this.loadedPlugins
    startedPlugins,  \* keys of this.startedPlugins
    dependencyTree,  \* key -> (dependent file name -> required state)
    loadingQueue,    \* the identifiers of the queued (suspended) loads
    procs,           \* the async calls in flight (a bag of call records)
    timers,          \* the callbacks set by setTimeout(.., 0), oldest first
    reevals,         \* re-evaluations of queue entries in flight
    listeners,       \* stopped/unloaded listener runs waiting on Promise.all
    hookState,       \* per file: the state its plugin is in by the hooks it saw
    last,            \* what the latest step did to a call or a handler (its outcome)
    script,          \* call by call, the calls the callers still choose from
    emitState,       \* per file: the state its plugin is in by the events emitted
    storage,         \* the rows of the loader's store: key -> stored text
    answer,          \* what the latest query of the loader returned
    parent,          \* the parent scope (a loader) and this loader's ties to it
    destroy,         \* how far a call of destroy() on this loader has come
    injection,       \* injectionPromise, the calls of injectDependencies, package.json
    container        \* the tables of a CommandContainer

\* what the lifecycle calls of this loader leave alone
outer == <<storage, answer, parent, destroy, injection, container>>

vars == <<dir, resolverTable, loadedPlugins, startedPlugins, dependencyTree,
          loadingQueue, procs, timers, reevals, listeners, hookState, last,
          script, emitState, storage, answer, parent, destroy, injection, container>>

\* thrown by resolvePluginFilename when no file matches
NotFound == <<>>

NoEvent == [kind |-> "none", op |-> "none", f |-> NotFound, err |-> "none", org |-> "none"]

Outcome(kind, op, f, err, org) == [kind |-> kind, op |-> op, f |-> f, err |-> err, org |-> org]

\* no query was made yet
NoAnswer == [op |-> "none", arg |-> NotFound, incl |-> FALSE, val |-> "none", from |-> "none"]

\* this.parent = null: a root scope
NoParent ==
    [ref |-> FALSE, heard |-> FALSE, dir |-> <<>>, loaded |-> {}, started |-> {},
     calls |-> {}, timers |-> <<>>, phase |-> "alive"]

\* let injectionPromise = null; no call of injectDependencies was made and
\* package.json lists no dependency
NoInjection == [promise |-> 0, settled |-> {}, runs |-> <<>>, manifest |-> {}]

\* a CommandContainer as its field initialisers leave it
NoCommands == [hookedCommands |-> {}, commandAliases |-> <<>>, aliasArray |-> <<>>]

\* destroy() was not called
NoDestroy == [phase |-> "none", left |-> 0]

\* a bag with one more / one fewer copy of e
BagAdd(b, e) == IF e \in DOMAIN b THEN [b EXCEPT ![e] = @ + 1] ELSE b @@ (e :> 1)

BagRemove(b, e) ==
    IF b[e] = 1 THEN [x \in (DOMAIN b) \ {e} |-> b[x]] ELSE [b EXCEPT ![e] = @ - 1]

-----------------------------------------------------------------------------
(* Resolver and state queries *)

IsPluginFile(file) ==
    /\ Len(file) >= 2
    /\ Lower(file[Len(file)]) \in {".js", ".ts"}
    /\ Lower(file[Len(file) - 1]) = ".plugin"

\* listPlugins(false)
ListPlugins == SelectSeq(dir, IsPluginFile)

\* pluginFiles.find(filename => filename includes fileID)
FirstMatch(fileID) ==
    LET hits == {k \in 1..Len(ListPlugins) : Includes(ListPlugins[k], fileID)}
    IN  IF hits = {} THEN NotFound
        ELSE ListPlugins[CHOOSE k \in hits : \A j \in hits : k <= j]

\* the same lookup in the plugin directory of the parent scope; the parent's
\* cache is left out: its directory does not change, so a cached name is the
\* first match
ParentResolve(fileID) ==
    LET files == SelectSeq(parent.dir, IsPluginFile)
        hits == {k \in 1..Len(files) : Includes(files[k], fileID)}
    IN  IF hits = {} THEN NotFound
        ELSE files[CHOOSE k \in hits : \A j \in hits : k <= j]

\* a lookup that reads the directory on every call
ResolveNoCache(table, fileID) == FirstMatch(fileID)

\* resolvePluginFilename(fileID) against a given cache
ResolveIn(table, fileID) ==
    IF fileID \in DOMAIN table THEN table[fileID] ELSE FirstMatch(fileID)

\* the cache after resolvePluginFilename(fileID)
CacheIn(table, fileID) ==
    IF fileID \in DOMAIN table \/ FirstMatch(fileID) = NotFound THEN table
    ELSE table @@ (fileID :> FirstMatch(fileID))

\* isPluginLoaded / isPluginStarted on given maps.  The parent's entries never
\* take part: getLoadedPlugins drops the result of concat.
IsLoadedIn(L, fileID) == \E pluginName \in L : Includes(pluginName, fileID)

IsStartedIn(S, fileID) == \E pluginName \in S : Includes(pluginName, fileID)

isPluginLoaded(fileID) == IsLoadedIn(loadedPlugins, fileID)

isPluginStarted(fileID) == IsStartedIn(startedPlugins, fileID)

\* the file whose module getPlugin(resolved, false) returns
PluginOf(table, resolved) == ResolveIn(table, resolved)

\* this.parent.getPlugin(resolvedFilename, true), the parent being a root
\* scope: its loaded instance, or the module imported from its directory
ParentGetPlugin(resolvedFilename) ==
    LET r == ParentResolve(resolvedFilename)
    IN  IF r = NotFound THEN [from |-> "FileNotFound", f |-> NotFound]
        ELSE IF r \in parent.loaded THEN [from |-> "parent", f |-> r]
        ELSE [from |-> "parentImport", f |-> r]

\* getPlugin(fileID, includeParent): where the plugin returned comes from (the
\* local loaded instance, the parent, or a fresh import from the local
\* directory) and the file it is the plugin of; or the error thrown
GetPlugin(table, fileID, includeParent) ==
    LET resolvedFilename == ResolveIn(table, fileID)
    IN  IF resolvedFilename = NotFound THEN [from |-> "FileNotFound", f |-> NotFound]
        ELSE IF resolvedFilename \in loadedPlugins
             THEN [from |-> "local", f |-> resolvedFilename]
        ELSE IF parent.ref /\ includeParent THEN ParentGetPlugin(resolvedFilename)
        ELSE [from |-> "import", f |-> resolvedFilename]

\* the file whose __meta getPluginInfo(fileID, includeParent) returns
InfoFile(table, fileID, includeParent) == GetPlugin(table, fileID, includeParent).f

-----------------------------------------------------------------------------
(* Guards of the four lifecycle calls, on the maps L and S *)

LoadGuard(L, S, resolved) ==
    IF IsLoadedIn(L, resolved) THEN "PluginAlreadyLoaded" ELSE "ok"

StartGuard(L, S, resolved) ==
    IF ~IsLoadedIn(L, resolved) THEN "PluginNotLoaded"
    ELSE IF IsStartedIn(S, resolved) THEN "PluginAlreadyStarted" ELSE "ok"

StopGuard(L, S, resolved) ==
    IF ~IsLoadedIn(L, resolved) THEN "PluginNotLoaded"
    ELSE IF ~IsStartedIn(S, resolved) THEN "PluginNotStarted" ELSE "ok"

UnloadGuard(L, S, resolved) ==
    IF ~IsLoadedIn(L, resolved) THEN "PluginNotLoaded"
    ELSE IF IsStartedIn(S, resolved) THEN "PluginStillStarted" ELSE "ok"

Guard(op, L, S, resolved) ==
    CASE op = "load"   -> LoadGuard(L, S, resolved)
      [] op = "start"  -> StartGuard(L, S, resolved)
      [] op = "stop"   -> StopGuard(L, S, resolved)
      [] op = "unload" -> UnloadGuard(L, S, resolved)

-----------------------------------------------------------------------------
(* allDependenciesSatisfied, one dependency at a time *)

\* the pass without the catch that lets an optional dependency go
DepOutcomeNoCatch(table, dep) ==
    LET g == InfoFile(table, dep.name, TRUE)
    IN  IF g = NotFound THEN "FileNotFound"
        ELSE IF ~Satisfies(MetaOf(g).version, dep.version) THEN "MissingDependency"
        ELSE IF dep.state = "started"
             THEN IF isPluginStarted(dep.name) THEN "next" ELSE "unmet"
             ELSE IF isPluginLoaded(dep.name) THEN "next" ELSE "unmet"

\* The pass of the loop of allDependenciesSatisfied over one dependency, after
\* its await of getPluginInfo: "next" (go on with the following one), "unmet"
\* (return false) or the error thrown.
DepOutcome(table, dep) ==
    LET g == InfoFile(table, dep.name, TRUE)
        thrown == IF g = NotFound THEN "FileNotFound"
                  ELSE IF ~Satisfies(MetaOf(g).version, dep.version)
                       THEN "MissingDependency" ELSE "none"
    IN  IF thrown # "none"
        THEN IF dep.optional THEN "next" ELSE thrown
        ELSE IF dep.state = "started"
             THEN IF isPluginStarted(dep.name) THEN "next" ELSE "unmet"
             ELSE IF isPluginLoaded(dep.name) THEN "next" ELSE "unmet"

\* the step without the test of the API version
SatisfiedStepAnyApi(table, fileID, i) ==
    IF InfoFile(table, fileID, TRUE) = NotFound THEN "FileNotFound"
    ELSE LET deps == MetaOf(InfoFile(table, fileID, TRUE)).pluginDependencies
         IN  IF Len(deps) = 0 THEN "true"
             ELSE LET out == DepOutcome(table, deps[i])
                  IN  IF out = "next" /\ i = Len(deps) THEN "true" ELSE out

\* The step of allDependenciesSatisfied(fileID) that handles dependency i (the
\* API version is tested ahead of the first one): "true", "false", "next" or
\* the error thrown.
SatisfiedStep(table, fileID, i) ==
    IF InfoFile(table, fileID, TRUE) = NotFound THEN "FileNotFound"
    ELSE LET info == MetaOf(InfoFile(table, fileID, TRUE))
             deps == info.pluginDependencies
         IN  IF i = 1 /\ ~Satisfies(LoaderApiVersion, info.apiVersion)
             THEN "ApiVersionMismatch"
             ELSE IF Len(deps) = 0 THEN "true"
             ELSE LET out == DepOutcome(table, deps[i])
                  IN  IF out = "next" /\ i = Len(deps) THEN "true" ELSE out

\* the cache after that step: getPluginInfo(fileID), then getPluginInfo of
\* the dependency
CacheStep(table, fileID, i) ==
    LET t1 == CacheIn(table, fileID)
        r  == InfoFile(t1, fileID, TRUE)
    IN  IF r = NotFound \/ Len(MetaOf(r).pluginDependencies) = 0
           \/ (i = 1 /\ ~Satisfies(LoaderApiVersion, MetaOf(r).apiVersion))
        THEN t1
        ELSE CacheIn(t1, MetaOf(r).pluginDependencies[i].name)

-----------------------------------------------------------------------------
(* Calls in flight *)

\* A call in flight: op is the function running, id the fileID it was given,
\* f the resolved file name, tgt the targetState of a load, pc the await it
\* stands at, i the dependency allDependenciesSatisfied is at, q its entry of
\* the loading queue, org who issued it, cont what the cascade handler that
\* awaits it does next, lid that handler's listener run, st and unl the
\* required state and isUnloaded the handler holds.
NoProc ==
    [op |-> "none", id |-> NotFound, f |-> NotFound, tgt |-> "none", pc |-> "none",
     i |-> 0, q |-> 0, org |-> "none", cont |-> <<>>, lid |-> 0, st |-> "none",
     unl |-> FALSE]

NewCall(op, id, resolved, tgt, org, cont, lid) ==
    [NoProc EXCEPT !.op = op, !.id = id, !.f = resolved, !.tgt = tgt,
                   !.pc = IF op = "load" THEN "deps" ELSE "hook",
                   !.i = IF op = "load" THEN 1 ELSE 0,
                   !.org = org, !.cont = cont, !.lid = lid]

Running == DOMAIN procs

\* the state a plugin is in by the hooks invoked on it; "bad" once a hook was
\* invoked that the state machine load -> (start -> stop)* -> unload forbids
HookStep(state, op) ==
    CASE op = "load"   -> IF state = "unloaded" THEN "loaded" ELSE "bad"
      [] op = "start"  -> IF state = "loaded" THEN "started" ELSE "bad"
      [] op = "stop"   -> IF state = "started" THEN "loaded" ELSE "bad"
      [] op = "unload" -> IF state = "loaded" THEN "unloaded" ELSE "bad"

InvokeHook(hs, file, op) == [hs EXCEPT ![file] = HookStep(@, op)]

\* The listener run lid after one of its handlers returned (failed = FALSE) or
\* threw (failed = TRUE): Promise.all resolves when the last one returned and
\* none threw.
JoinListeners(ls, lid, failed) ==
    IF lid \notin DOMAIN ls THEN ls
    ELSE IF ls[lid].kids = 1 THEN [x \in (DOMAIN ls) \ {lid} |-> ls[x]]
    ELSE [ls EXCEPT ![lid].kids = @ - 1, ![lid].failed = @ \/ failed]

\* if (isUnloaded) delete depTree[filename], reached when Promise.all resolved
JoinTree(tree, ls, lid, failed) ==
    IF /\ lid \in DOMAIN ls
       /\ ls[lid].kids = 1
       /\ ~failed /\ ~ls[lid].failed
       /\ ls[lid].unl
       /\ ls[lid].f \in DOMAIN tree
    THEN [x \in (DOMAIN tree) \ {ls[lid].f} |-> tree[x]]
    ELSE tree

-----------------------------------------------------------------------------
(* Calls issued by the callers of the loader *)

\* the loader as constructed, for a run out of `runs`
Constructed ==
    /\ resolverTable = <<>>
    /\ loadedPlugins = {}
    /\ startedPlugins = {}
    /\ dependencyTree = <<>>
    /\ loadingQueue = <<>>
    /\ procs = <<>>
    /\ timers = <<>>
    /\ reevals = {}
    /\ listeners = <<>>
    /\ hookState = [f \in AllFiles |-> "unloaded"]
    /\ last = NoEvent
    /\ emitState = [f \in AllFiles |-> "unloaded"]
    /\ storage = <<>>
    /\ answer = NoAnswer
    /\ destroy = NoDestroy
    /\ injection = NoInjection
    /\ container = NoCommands

\* a root loader, for a run out of `runs`
InitOf(runs) ==
    /\ \E scn \in runs :
          /\ dir = scn.dir
          /\ script = scn.script
    /\ Constructed
    /\ parent = NoParent

Init == InitOf(Scenarios)

\* a guard that throws only after the plugin's hook was invoked
CallRejectLate(op, resolved, err, org) ==
    /\ last' = Outcome("rejected", op, resolved, err, org)
    /\ hookState' = InvokeHook(hookState, resolved, op)
    /\ UNCHANGED <<loadedPlugins, startedPlugins, dependencyTree, loadingQueue,
                   procs, timers, reevals, listeners>>

\* the call throws at its guard
CallReject(op, resolved, err, org) ==
    /\ last' = Outcome("rejected", op, resolved, err, org)
    /\ UNCHANGED <<loadedPlugins, startedPlugins, dependencyTree, loadingQueue,
                   procs, timers, reevals, listeners, hookState>>

\* the call passes its guard and goes on to its next await
CallAccept(op, id, resolved, tgt, org) ==
    /\ procs' = BagAdd(procs, NewCall(op, id, resolved, tgt, org, <<>>, 0))
    /\ last' = Outcome("accepted", op, resolved, "ok", org)
    /\ UNCHANGED <<loadedPlugins, startedPlugins, dependencyTree, loadingQueue,
                   timers, reevals, listeners, hookState>>

\* A lifecycle call up to the end of its guard; org tells who made the call
\* (a caller of the loader, or a function of the management surface).
CallFrom(op, id, tgt, org) ==
    /\ ResolveIn(resolverTable, id) # NotFound
    /\ script' = Tail(script)
    /\ resolverTable' = CacheIn(resolverTable, id)
    /\ UNCHANGED <<dir, emitState, outer>>
    /\ LET resolved == ResolveIn(resolverTable, id)
           g == Guard(op, loadedPlugins, startedPlugins, resolved)
       IN  IF g = "ok" THEN CallAccept(op, id, resolved, tgt, org)
           ELSE CallReject(op, resolved, g, org)

Call(op, id, tgt) == CallFrom(op, id, tgt, "user")

loadPlugin(fileID, targetState) == Call("load", fileID, targetState)

startPlugin(fileID) == Call("start", fileID, "none")

stopPlugin(fileID) == Call("stop", fileID, "none")

unloadPlugin(fileID) == Call("unload", fileID, "none")

\* The lifecycle functions of PM2API, the management surface: each returns the
\* promise of the loader function it calls.
PM2API_load(fileID) == CallFrom("load", fileID, "none", "api.load")

PM2API_unload(fileID) == CallFrom("unload", fileID, "none", "api.unload")

PM2API_start(fileID) == CallFrom("start", fileID, "none", "api.start")

\* stop: fileID => this.loadPlugin(fileID)
PM2API_stop(fileID) == CallFrom("load", fileID, "none", "api.stop")

-----------------------------------------------------------------------------
(* loadPlugin after its guard *)

\* One pass of allDependenciesSatisfied(resolved) as loadPlugin awaits it: it
\* goes on to the next dependency, returns true (the load goes on), returns
\* false (the load queues itself and waits) or throws (the load rejects).
LoadDeps(p) ==
    /\ p.op = "load" /\ p.pc = "deps"
    /\ LET out == SatisfiedStep(resolverTable, p.f, p.i)
           rest == BagRemove(procs, p)
       IN  /\ procs' = CASE out = "next"  -> BagAdd(rest, [p EXCEPT !.i = p.i + 1])
                         [] out = "true"  -> BagAdd(rest, [p EXCEPT !.pc = "edges", !.i = 0])
                         [] out = "unmet" ->
                              BagAdd(rest, [p EXCEPT !.pc = "suspended", !.i = 0,
                                                     !.q = Len(loadingQueue) + 1])
                         [] OTHER         -> rest
           /\ loadingQueue' = IF out = "unmet" THEN Append(loadingQueue, p.id)
                              ELSE loadingQueue
           /\ last' = IF out \in {"next", "true", "unmet"} THEN NoEvent
                      ELSE Outcome("failed", "load", p.f, out, p.org)
    /\ resolverTable' = CacheStep(resolverTable, p.f, p.i)
    /\ UNCHANGED <<dir, loadedPlugins, startedPlugins, dependencyTree,
                   timers, reevals, listeners, hookState, script>>
    /\ UNCHANGED <<emitState, outer>>

\* the tree after the loop that registers the edges of plugin `resolved`
RegisterEdges(tree, resolved, deps) ==
    LET names == {deps[k].name : k \in 1..Len(deps)}
        state(n) == deps[CHOOSE k \in 1..Len(deps) :
                           deps[k].name = n /\ \A j \in 1..Len(deps) : deps[j].name = n => j <= k].state
        keys == (DOMAIN tree) \cup names
    IN  [n \in keys |->
            IF n \in names
            THEN LET old == IF n \in DOMAIN tree THEN tree[n] ELSE <<>>
                 IN  [d \in (DOMAIN old) \cup {resolved} |->
                         IF d = resolved THEN state(n) ELSE old[d]]
            ELSE tree[n]]

\* getPlugin(resolved, false), then the edges are registered
LoadEdges(p) ==
    /\ p.op = "load" /\ p.pc = "edges"
    /\ dependencyTree' = RegisterEdges(dependencyTree, p.f,
                            MetaOf(PluginOf(resolverTable, p.f)).pluginDependencies)
    /\ procs' = BagAdd(BagRemove(procs, p), [p EXCEPT !.pc = "hook"])
    /\ resolverTable' = CacheIn(resolverTable, p.f)
    /\ last' = NoEvent
    /\ UNCHANGED <<dir, loadedPlugins, startedPlugins, loadingQueue,
                   timers, reevals, listeners, hookState, script>>
    /\ UNCHANGED <<emitState, outer>>

\* injectDependencies is through; plugin.load(api, storage, resolved) is invoked
LoadHook(p) ==
    /\ p.op = "load" /\ p.pc = "hook"
    /\ hookState' = InvokeHook(hookState, PluginOf(resolverTable, p.f), "load")
    /\ procs' = BagAdd(BagRemove(procs, p), [p EXCEPT !.pc = "commit"])
    /\ last' = NoEvent
    /\ UNCHANGED <<dir, resolverTable, loadedPlugins, startedPlugins, dependencyTree,
                   loadingQueue, timers, reevals, listeners, script>>
    /\ UNCHANGED <<emitState, outer>>

\* a load that emits its event within the call instead of setting a timer
LoadCommitSync(p) ==
    /\ p.op = "load" /\ p.pc = "commit"
    /\ loadedPlugins' = loadedPlugins \cup {p.f}
    /\ emitState' = [emitState EXCEPT ![p.f] = IF @ = "unloaded" THEN "loaded" ELSE "bad"]
    /\ reevals' = reevals \cup {[q |-> k, i |-> 1] : k \in 1..Len(loadingQueue)}
    /\ procs' = BagRemove(procs, p)
    /\ last' = NoEvent
    /\ UNCHANGED <<dir, resolverTable, startedPlugins, dependencyTree,
                   loadingQueue, timers, listeners, hookState, script>>
    /\ UNCHANGED outer

\* The load hook is through: the plugin is registered, the event timer set.
\* When the hook rejected, loadPlugin rejects with its error instead.
LoadCommit(p) ==
    /\ p.op = "load" /\ p.pc = "commit"
    /\ IF LoadThrows(PluginOf(resolverTable, p.f))
       THEN /\ last' = Outcome("failed", "load", p.f, "HookError", p.org)
            /\ UNCHANGED <<loadedPlugins, timers>>
       ELSE /\ loadedPlugins' = loadedPlugins \cup {p.f}
            /\ timers' = Append(timers, [ev |-> "pluginLoaded", f |-> p.f, tgt |-> p.tgt])
            /\ last' = NoEvent
    /\ procs' = BagRemove(procs, p)
    /\ UNCHANGED <<dir, resolverTable, startedPlugins, dependencyTree,
                   loadingQueue, reevals, listeners, hookState, script>>
    /\ UNCHANGED <<emitState, outer>>

-----------------------------------------------------------------------------
(* startPlugin, stopPlugin and unloadPlugin after their guards *)

\* getPlugin(resolved, false) is through; the plugin's hook is invoked
Hook(p) ==
    /\ p.op \in {"start", "stop", "unload"} /\ p.pc = "hook"
    /\ hookState' = InvokeHook(hookState, PluginOf(resolverTable, p.f), p.op)
    /\ procs' = BagAdd(BagRemove(procs, p), [p EXCEPT !.pc = "commit"])
    /\ resolverTable' = CacheIn(resolverTable, p.f)
    /\ last' = NoEvent
    /\ UNCHANGED <<dir, loadedPlugins, startedPlugins, dependencyTree,
                   loadingQueue, timers, reevals, listeners, script>>
    /\ UNCHANGED <<emitState, outer>>

\* this.loadedPlugins after the call's assignment or delete
LoadedAfter(p) ==
    IF p.op = "unload" THEN loadedPlugins \ {p.f} ELSE loadedPlugins

\* this.startedPlugins after the call's assignment or delete
StartedAfter(p) ==
    CASE p.op = "start" -> startedPlugins \cup {p.f}
      [] p.op = "stop"  -> startedPlugins \ {p.f}
      [] OTHER          -> startedPlugins

EventOf(op) ==
    CASE op = "start"  -> "pluginStarted"
      [] op = "stop"   -> "pluginStopped"
      [] op = "unload" -> "pluginUnloaded"

\* the event a call of the loader reports
EventFor(op) == IF op = "load" THEN "pluginLoaded" ELSE EventOf(op)

\* The hook is through: the map is updated and the event timer set.  A call
\* made by the cascade handler then returns to it: the handler goes on with
\* unloadPlugin, or re-submits the load and returns.
Commit(p) ==
    /\ p.op \in {"start", "stop", "unload"} /\ p.pc = "commit"
    /\ p.org # "destroy"
    /\ LET L == LoadedAfter(p)
           S == StartedAfter(p)
           rest == BagRemove(procs, p)
           next == IF p.cont = <<>> THEN "none" ELSE Head(p.cont)
           resolved == ResolveIn(resolverTable, p.id)
           g == CASE next = "none"   -> "ok"
                  [] next = "reload" -> Guard("load", L, S, resolved)
                  [] OTHER           -> Guard(next, L, S, resolved)
       IN  /\ loadedPlugins' = L
           /\ startedPlugins' = S
           /\ timers' = Append(timers, [ev |-> EventOf(p.op), f |-> p.f, tgt |-> "none"])
           /\ procs' = CASE next = "none" \/ g # "ok" -> rest
                         [] next = "reload" ->
                              BagAdd(rest, NewCall("load", p.id, resolved, p.tgt, "cascade", <<>>, 0))
                         [] OTHER ->
                              BagAdd(rest, NewCall(next, p.id, resolved, p.tgt, "cascade",
                                                   Tail(p.cont), p.lid))
           /\ listeners' = CASE next = "none"   -> listeners
                             [] next = "reload" -> JoinListeners(listeners, p.lid, FALSE)
                             [] g # "ok"        -> JoinListeners(listeners, p.lid, TRUE)
                             [] OTHER           -> listeners
           /\ dependencyTree' = IF next = "reload"
                                THEN JoinTree(dependencyTree, listeners, p.lid, FALSE)
                                ELSE dependencyTree
           /\ last' = IF g = "ok" THEN NoEvent
                      ELSE IF next = "reload"
                           THEN Outcome("rejected", "load", resolved, g, "cascade")
                           ELSE Outcome("rejected", next, resolved, g, "cascade")
    /\ UNCHANGED <<dir, resolverTable, loadingQueue, reevals, hookState, script>>
    /\ UNCHANGED <<emitState, outer>>

-----------------------------------------------------------------------------
(* The timers: emission of the lifecycle events and the loader's listeners *)

\* the lifecycle function whose completion an event reports
OpOfEvent(ev) ==
    CASE ev = "pluginLoaded"   -> "load"
      [] ev = "pluginStarted"  -> "start"
      [] ev = "pluginStopped"  -> "stop"
      [] ev = "pluginUnloaded" -> "unload"

\* this.emit(ev, resolved, ..): the state the plugin is in by the events
\* emitted for it; "bad" once an event was emitted out of the order loaded ->
\* (started -> stopped)* -> unloaded
Emit(es, ev, resolved) == [es EXCEPT ![resolved] = HookStep(@, OpOfEvent(ev))]

\* startPlugin(resolved) called by the timer of a load with target "started",
\* up to the end of its guard
AutoStart(t, bag) ==
    IF t.ev = "pluginLoaded" /\ t.tgt = "started"
          /\ StartGuard(loadedPlugins, startedPlugins, ResolveIn(resolverTable, t.f)) = "ok"
    THEN BagAdd(bag, NewCall("start", t.f, ResolveIn(resolverTable, t.f), "none", "auto", <<>>, 0))
    ELSE bag

\* pluginLoaded / pluginStarted: loadedListener = startedListener starts the
\* re-evaluation of every entry of the loading queue
FireUp ==
    /\ timers # <<>>
    /\ destroy.phase # "resolved"
    /\ Head(timers).ev \in {"pluginLoaded", "pluginStarted"}
    /\ LET t == Head(timers)
           resolved == ResolveIn(resolverTable, t.f)
           auto == t.ev = "pluginLoaded" /\ t.tgt = "started"
           g == StartGuard(loadedPlugins, startedPlugins, resolved)
       IN  /\ timers' = Tail(timers)
           /\ reevals' = reevals \cup {[q |-> k, i |-> 1] : k \in 1..Len(loadingQueue)}
           /\ procs' = AutoStart(t, procs)
           /\ resolverTable' = IF auto THEN CacheIn(resolverTable, t.f) ELSE resolverTable
           /\ last' = IF auto /\ g # "ok"
                      THEN Outcome("rejected", "start", resolved, g, "auto")
                      ELSE NoEvent
    /\ emitState' = Emit(emitState, Head(timers).ev, Head(timers).f)
    /\ UNCHANGED <<dir, loadedPlugins, startedPlugins, dependencyTree, loadingQueue,
                   listeners, hookState, script>>
    /\ UNCHANGED outer

\* an unused number for a listener run
FreshLid == CHOOSE n \in 1..(Cardinality(DOMAIN listeners) + 1) : n \notin DOMAIN listeners

\* a handler that takes every event for a full unload
CascadeHandlerUnloaded(dependant, state, isUnloaded, lid) ==
    [NoProc EXCEPT !.op = "cascade", !.id = dependant, !.f = dependant, !.pc = "info",
                   !.org = "cascade", !.lid = lid, !.st = state, !.unl = TRUE]

\* the handler the listener starts for one dependant of filename
CascadeHandler(dependant, state, isUnloaded, lid) ==
    [NoProc EXCEPT !.op = "cascade", !.id = dependant, !.f = dependant, !.pc = "info",
                   !.org = "cascade", !.lid = lid, !.st = state, !.unl = isUnloaded]

\* pluginStopped / pluginUnloaded: stoppedListener = unloadedListener up to its
\* await of Promise.all.  Object.entries(depTree[filename]) throws a TypeError
\* when the tree has no entry for filename.
FireDown ==
    /\ timers # <<>>
    /\ destroy.phase # "resolved"
    /\ Head(timers).ev \in {"pluginStopped", "pluginUnloaded"}
    /\ LET filename == Head(timers).f
           isUnloaded == ~isPluginLoaded(filename)
           known == filename \in DOMAIN dependencyTree
           entries == IF known THEN dependencyTree[filename] ELSE <<>>
           lid == FreshLid
           kids == {CascadeHandler(d, entries[d], isUnloaded, lid) : d \in DOMAIN entries}
       IN  /\ timers' = Tail(timers)
           /\ procs' = procs @@ [c \in kids |-> 1]
           /\ listeners' = IF known
                           THEN listeners @@ (lid :> [f |-> filename, unl |-> isUnloaded,
                                                      kids |-> Cardinality(kids),
                                                      failed |-> FALSE])
                           ELSE listeners
           /\ last' = IF known THEN NoEvent
                      ELSE Outcome("failed", "listener", filename, "TypeError", "listener")
    /\ emitState' = Emit(emitState, Head(timers).ev, Head(timers).f)
    /\ UNCHANGED <<dir, resolverTable, loadedPlugins, startedPlugins, dependencyTree,
                   loadingQueue, reevals, hookState, script>>
    /\ UNCHANGED outer

\* the handler with its test of stayLoadedOnDependencyLoss left out
CascadeSkipsNoFlag(pInfo, state, isUnloaded) ==
    ~(state = "started" \/ (state = "loaded" /\ isUnloaded))

\* whether the handler returns without touching the dependant: the plugin
\* stays loaded on dependency loss, or the event does not break the edge
CascadeSkips(pInfo, state, isUnloaded) ==
    \/ pInfo.stayLoadedOnDependencyLoss
    \/ ~(state = "started" \/ (state = "loaded" /\ isUnloaded))

\* One handler of the listener, from the end of its await of getPluginInfo to
\* its next await: it returns at once for a plugin that stays loaded or an edge
\* the event does not break; else it calls stopPlugin or unloadPlugin, or
\* re-submits the load and returns.
CascadeInfo(p) ==
    /\ p.op = "cascade" /\ p.pc = "info"
    /\ LET dependant == p.id
           table == CacheIn(resolverTable, dependant)
           resolved == ResolveIn(table, dependant)
           pInfo == MetaOf(resolved)
           isLoaded == isPluginLoaded(dependant)
           isStarted == isPluginStarted(dependant)
           skip == CascadeSkips(pInfo, p.st, p.unl)
           first == IF isStarted THEN "stop" ELSE IF isLoaded THEN "unload" ELSE "load"
           cont == IF isStarted /\ isLoaded THEN <<"unload", "reload">> ELSE <<"reload">>
           tgt == IF isStarted THEN "started" ELSE "loaded"
           g == Guard(first, loadedPlugins, startedPlugins, resolved)
           returns == skip \/ first = "load"
           rest == BagRemove(procs, p)
       IN  /\ resolverTable' = table
           /\ procs' = CASE skip \/ g # "ok" -> rest
                         [] first = "load" ->
                              BagAdd(rest, NewCall("load", dependant, resolved, tgt, "cascade", <<>>, 0))
                         [] OTHER ->
                              BagAdd(rest, NewCall(first, dependant, resolved, tgt, "cascade",
                                                   cont, p.lid))
           /\ listeners' = CASE returns   -> JoinListeners(listeners, p.lid, FALSE)
                             [] g # "ok"  -> JoinListeners(listeners, p.lid, TRUE)
                             [] OTHER     -> listeners
           /\ dependencyTree' = IF returns
                                THEN JoinTree(dependencyTree, listeners, p.lid, FALSE)
                                ELSE dependencyTree
           /\ last' = IF skip THEN Outcome("skipped", "cascade", resolved, "none", "cascade")
                      ELSE IF g = "ok" THEN NoEvent
                      ELSE Outcome("rejected", first, resolved, g, "cascade")
    /\ UNCHANGED <<dir, loadedPlugins, startedPlugins, loadingQueue, timers, reevals,
                   hookState, script>>
    /\ UNCHANGED <<emitState, outer>>

\* queueEntry.callback(): the load that waits on entry q goes on
Resume(bag, q) ==
    LET waiting == {p \in DOMAIN bag : p.pc = "suspended" /\ p.q = q}
    IN  IF waiting = {} THEN bag
        ELSE LET p == CHOOSE x \in waiting : TRUE
             IN  BagAdd(BagRemove(bag, p), [p EXCEPT !.pc = "edges", !.q = 0])

\* a listener that calls the callback of a queue entry whether or not its
\* dependencies are satisfied
ReevalAlways(r) ==
    /\ r \in reevals
    /\ LET out == SatisfiedStep(resolverTable, loadingQueue[r.q], r.i)
       IN  /\ reevals' = IF out = "next"
                         THEN (reevals \ {r}) \cup {[q |-> r.q, i |-> r.i + 1]}
                         ELSE reevals \ {r}
           /\ procs' = IF out # "next" THEN Resume(procs, r.q) ELSE procs
    /\ resolverTable' = CacheStep(resolverTable, loadingQueue[r.q], r.i)
    /\ last' = NoEvent
    /\ UNCHANGED <<dir, loadedPlugins, startedPlugins, dependencyTree, loadingQueue,
                   timers, listeners, hookState, script>>
    /\ UNCHANGED <<emitState, outer>>

\* one step of the re-evaluation of a queue entry by the loaded/started listener
Reeval(r) ==
    /\ r \in reevals
    /\ LET out == SatisfiedStep(resolverTable, loadingQueue[r.q], r.i)
       IN  /\ reevals' = IF out = "next"
                         THEN (reevals \ {r}) \cup {[q |-> r.q, i |-> r.i + 1]}
                         ELSE reevals \ {r}
           /\ procs' = IF out = "true" THEN Resume(procs, r.q) ELSE procs
    /\ resolverTable' = CacheStep(resolverTable, loadingQueue[r.q], r.i)
    /\ last' = NoEvent
    /\ UNCHANGED <<dir, loadedPlugins, startedPlugins, dependencyTree, loadingQueue,
                   timers, listeners, hookState, script>>
    /\ UNCHANGED <<emitState, outer>>

-----------------------------------------------------------------------------

\* nothing of the loader is on its way: no timer, no listener run, no
\* re-evaluation, and every call in flight is a suspended load
Quiet ==
    /\ timers = <<>>
    /\ reevals = {}
    /\ listeners = <<>>
    /\ \A p \in Running : p.pc = "suspended"
    /\ parent.calls = {} /\ parent.timers = <<>>
    /\ destroy.phase \notin {"stops", "unloads"}

\* the calls the callers may issue now
Offered == IF script = <<>> THEN {} ELSE {c \in Head(script) : c.wait => Quiet}

Next ==
    \/ \E c \in Offered : c.op = "load" /\ loadPlugin(c.id, c.tgt)
    \/ \E c \in Offered : c.op = "start" /\ startPlugin(c.id)
    \/ \E c \in Offered : c.op = "stop" /\ stopPlugin(c.id)
    \/ \E c \in Offered : c.op = "unload" /\ unloadPlugin(c.id)
    \/ \E c \in Offered : c.op = "api.load" /\ PM2API_load(c.id)
    \/ \E c \in Offered : c.op = "api.unload" /\ PM2API_unload(c.id)
    \/ \E c \in Offered : c.op = "api.start" /\ PM2API_start(c.id)
    \/ \E c \in Offered : c.op = "api.stop" /\ PM2API_stop(c.id)
    \/ \E p \in Running : LoadDeps(p)
    \/ \E p \in Running : LoadEdges(p)
    \/ \E p \in Running : LoadHook(p)
    \/ \E p \in Running : LoadCommit(p)
    \/ \E p \in Running : Hook(p)
    \/ \E p \in Running : Commit(p)
    \/ \E p \in Running : CascadeInfo(p)
    \/ \E r \in reevals : Reeval(r)
    \/ FireUp
    \/ FireDown

Spec == Init /\ [][Next]_vars

-----------------------------------------------------------------------------
(* The parent scope.  It is a loader of its own; the plugins it is asked to
   load declare no dependencies, so its queue stays empty, its dependency
   tree has no entries and its own listeners change nothing. *)

\* what the steps of the parent leave alone in this loader
inner == <<dir, resolverTable, loadedPlugins, startedPlugins, dependencyTree,
           loadingQueue, hookState, emitState, storage, answer, destroy, injection, container>>

\* loadPlugin / startPlugin / stopPlugin / unloadPlugin of the parent, up to the
\* end of the guard.  The callers of the parent do not repeat a call that is
\* still in flight.
ParentCall(op, fileID) ==
    LET resolved == ParentResolve(fileID)
        g == Guard(op, parent.loaded, parent.started, resolved)
    IN  /\ resolved # NotFound
        /\ [op |-> op, f |-> resolved, org |-> "user"] \notin parent.calls
        /\ script' = Tail(script)
        /\ parent' = IF g # "ok" THEN parent
                      ELSE [parent EXCEPT !.calls = @ \cup {[op |-> op, f |-> resolved,
                                                              org |-> "user"]}]
        /\ last' = Outcome(IF g = "ok" THEN "accepted" ELSE "rejected", op, resolved, g,
                           "parent")
        /\ UNCHANGED <<inner, procs, timers, reevals, listeners>>

\* a teardown that emits no signal and leaves the listeners on the emitter
ParentSignalSilent(pa) == [pa EXCEPT !.phase = "destroyed"]

\* this.emit("pluginLoaderDestroy") and this.removeAllListeners() of the
\* parent: this loader's handler clears this.parent, and its listeners are off
\* the parent's emitter
ParentSignal(pa) == [pa EXCEPT !.phase = "destroyed", !.ref = FALSE, !.heard = FALSE]

\* The calls destroy() of the parent makes in one phase, on the files
\* `plugins`: each call runs up to its guard; one that throws rejects
\* Promise.all and with it destroy().  With no call to wait for, destroy()
\* goes on at once.
ParentPhase(pa, op, plugins, phase, after) ==
    LET resolved(f) == LET r == ParentResolve(f) IN IF r = NotFound THEN f ELSE r
        thrown == {f \in plugins :
                     \/ ParentResolve(f) = NotFound
                     \/ Guard(op, pa.loaded, pa.started, resolved(f)) # "ok"}
        made(org) == {[op |-> op, f |-> resolved(f), org |-> org] : f \in plugins \ thrown}
    IN  IF thrown # {}
        THEN [pa EXCEPT !.phase = "rejected", !.calls = @ \cup made("user")]
        ELSE IF plugins = {} THEN after
        ELSE [pa EXCEPT !.phase = phase, !.calls = @ \cup made("destroy")]

\* the second Promise.all of destroy(): unloadPlugin of every loaded plugin
ParentUnloads(pa) == ParentPhase(pa, "unload", pa.loaded, "unloads", ParentSignal(pa))

\* the first Promise.all of destroy(): stopPlugin of every started plugin
ParentStops(pa) == ParentPhase(pa, "stop", pa.started, "stops", ParentUnloads(pa))

\* Promise.all of the parent's destroy() after one of its calls returned
ParentJoin(pa) ==
    IF \E c \in pa.calls : c.org = "destroy" THEN pa
    ELSE IF pa.phase = "stops" THEN ParentUnloads(pa)
    ELSE IF pa.phase = "unloads" THEN ParentSignal(pa)
    ELSE pa

\* destroy() of the parent, up to its first await
ParentDestroy ==
    /\ parent.phase = "alive"
    /\ script' = Tail(script)
    /\ parent' = ParentStops(parent)
    /\ last' = NoEvent
    /\ UNCHANGED <<inner, procs, timers, reevals, listeners>>

\* A call of the parent is through its hook: the map is updated and the event
\* timer set; a call made by destroy() returns to its Promise.all.
ParentCommit(c) ==
    /\ c \in parent.calls
    /\ LET L == CASE c.op = "load"   -> parent.loaded \cup {c.f}
                  [] c.op = "unload" -> parent.loaded \ {c.f}
                  [] OTHER           -> parent.loaded
           S == CASE c.op = "start" -> parent.started \cup {c.f}
                  [] c.op = "stop"  -> parent.started \ {c.f}
                  [] OTHER          -> parent.started
           after == [parent EXCEPT !.loaded = L, !.started = S, !.calls = @ \ {c},
                                   !.timers = Append(@, [ev |-> EventFor(c.op), f |-> c.f])]
       IN  parent' = IF c.org = "destroy" THEN ParentJoin(after) ELSE after
    /\ last' = NoEvent
    /\ UNCHANGED <<inner, procs, timers, reevals, listeners, script>>

\* The oldest timer of the parent emits its event.  The parent's own
\* listeners change nothing; this loader's parent listener, while it is on
\* the parent's emitter, emits the event again here (parent: true), which runs
\* this loader's loadedListener / startedListener or its stoppedListener /
\* unloadedListener up to the await of Promise.all.
ParentFire ==
    /\ parent.timers # <<>>
    /\ parent' = [parent EXCEPT !.timers = Tail(@)]
    /\ LET t == Head(parent.timers)
           up == t.ev \in {"pluginLoaded", "pluginStarted"}
           filename == t.f
           isUnloaded == ~isPluginLoaded(filename)
           known == filename \in DOMAIN dependencyTree
           entries == IF known THEN dependencyTree[filename] ELSE <<>>
           lid == FreshLid
           kids == {CascadeHandler(d, entries[d], isUnloaded, lid) : d \in DOMAIN entries}
       IN  IF ~parent.heard
           THEN /\ last' = Outcome("unheard", t.ev, filename, "none", "parent")
                /\ UNCHANGED <<procs, reevals, listeners>>
           ELSE /\ last' = Outcome("reemitted", t.ev, filename, "none", "parent")
                /\ reevals' = IF up THEN reevals \cup {[q |-> k, i |-> 1] :
                                                          k \in 1..Len(loadingQueue)}
                               ELSE reevals
                /\ procs' = IF up THEN procs ELSE procs @@ [c \in kids |-> 1]
                /\ listeners' = IF ~up /\ known
                                 THEN listeners @@ (lid :> [f |-> filename, unl |-> isUnloaded,
                                                            kids |-> Cardinality(kids),
                                                            failed |-> FALSE])
                                 ELSE listeners
    /\ UNCHANGED <<inner, timers, script>>

-----------------------------------------------------------------------------
(* destroy() of this loader *)

DestroyCall == [op |-> "destroy", id |-> NotFound, tgt |-> "none", wait |-> FALSE]

\* the cache after resolvePluginFilename of every fileID of `ids`
CacheAll(table, ids) ==
    LET fresh == {id \in ids : id \notin DOMAIN table /\ FirstMatch(id) # NotFound}
    IN  table @@ [id \in fresh |-> FirstMatch(id)]

\* plugins.map(plugin => this.stopPlugin(plugin)) or this.unloadPlugin(plugin):
\* every call runs up to the end of its guard on the maps L and S; the calls
\* that pass it, and whether one of them threw
DestroyCalls(op, plugins, L, S, table) ==
    LET resolved(f) == ResolveIn(table, f)
        passes(f) == resolved(f) # NotFound /\ Guard(op, L, S, resolved(f)) = "ok"
    IN  [made |-> {NewCall(op, f, resolved(f), "none", "destroy", <<>>, 0) :
                     f \in {x \in plugins : passes(x)}},
         thrown |-> \E f \in plugins : ~passes(f)]

\* destroy() after its two awaits: the parent listeners are taken off the
\* parent, pluginLoaderDestroy is emitted and all listeners of this loader are
\* removed.  this.parent stays as it is.
DestroyEnd(st) == [st EXCEPT !.d = [phase |-> "resolved", left |-> 0],
                             !.pa = [@ EXCEPT !.heard = FALSE]]

\* await Promise.all(this.getLoadedPlugins(false).map(..unloadPlugin..)) on
\* the maps L and S; without a call to wait for destroy() goes on at once
DestroyUnloads(st, L, S) ==
    LET c == DestroyCalls("unload", L, L, S, st.table)
        t == CacheAll(st.table, L)
        bag == [x \in (DOMAIN st.bag) \cup c.made |->
                  (IF x \in DOMAIN st.bag THEN st.bag[x] ELSE 0) + (IF x \in c.made THEN 1 ELSE 0)]
    IN  IF c.thrown
        THEN [st EXCEPT !.bag = bag, !.table = t, !.d = [phase |-> "rejected", left |-> 0]]
        ELSE IF L = {} THEN DestroyEnd(st)
        ELSE [st EXCEPT !.bag = bag, !.table = t,
                        !.d = [phase |-> "unloads", left |-> Cardinality(L)]]

\* await Promise.all(this.getStartedPlugins(false).map(..stopPlugin..))
DestroyStops(st, L, S) ==
    LET c == DestroyCalls("stop", S, L, S, st.table)
        t == CacheAll(st.table, S)
        bag == [x \in (DOMAIN st.bag) \cup c.made |->
                  (IF x \in DOMAIN st.bag THEN st.bag[x] ELSE 0) + (IF x \in c.made THEN 1 ELSE 0)]
    IN  IF c.thrown
        THEN [st EXCEPT !.bag = bag, !.table = t, !.d = [phase |-> "rejected", left |-> 0]]
        ELSE IF S = {} THEN DestroyUnloads(st, L, S)
        ELSE [st EXCEPT !.bag = bag, !.table = t,
                        !.d = [phase |-> "stops", left |-> Cardinality(S)]]

\* destroy(), up to its first await that does not settle at once
Destroy ==
    /\ destroy.phase = "none"
    /\ script' = Tail(script)
    /\ LET st == DestroyStops([bag |-> procs, table |-> resolverTable, d |-> destroy,
                               pa |-> parent], loadedPlugins, startedPlugins)
       IN  /\ procs' = st.bag
           /\ resolverTable' = st.table
           /\ destroy' = st.d
           /\ parent' = st.pa
    /\ last' = NoEvent
    /\ UNCHANGED <<dir, loadedPlugins, startedPlugins, dependencyTree, loadingQueue,
                   timers, reevals, listeners, hookState, emitState, storage, answer,
                   injection, container>>

\* A call made by destroy() is through its hook: the map is updated, the event
\* timer set, and the call returns to Promise.all; when it was the last one of
\* its phase, destroy() goes on.
DestroyCommit(p) ==
    /\ p.op \in {"stop", "unload"} /\ p.pc = "commit"
    /\ p.org = "destroy"
    /\ LET L == LoadedAfter(p)
           S == StartedAfter(p)
           st == [bag |-> BagRemove(procs, p), table |-> resolverTable,
                  d |-> [destroy EXCEPT !.left = IF @ > 0 THEN @ - 1 ELSE 0], pa |-> parent]
           after == CASE destroy.phase = "stops" /\ destroy.left = 1   -> DestroyUnloads(st, L, S)
                      [] destroy.phase = "unloads" /\ destroy.left = 1 -> DestroyEnd(st)
                      [] OTHER                                         -> st
       IN  /\ loadedPlugins' = L
           /\ startedPlugins' = S
           /\ timers' = Append(timers, [ev |-> EventOf(p.op), f |-> p.f, tgt |-> "none"])
           /\ procs' = after.bag
           /\ resolverTable' = after.table
           /\ destroy' = after.d
           /\ parent' = after.pa
    /\ last' = NoEvent
    /\ UNCHANGED <<dir, dependencyTree, loadingQueue, reevals, listeners, hookState,
                   script, emitState, storage, answer,
                   injection, container>>

\* A timer that runs after removeAllListeners(): its event reaches no
\* listener; the timer of a load with target "started" still calls
\* startPlugin.
FireDeaf ==
    /\ timers # <<>>
    /\ destroy.phase = "resolved"
    /\ LET t == Head(timers)
           resolved == ResolveIn(resolverTable, t.f)
           auto == t.ev = "pluginLoaded" /\ t.tgt = "started"
           g == StartGuard(loadedPlugins, startedPlugins, resolved)
       IN  /\ timers' = Tail(timers)
           /\ procs' = AutoStart(t, procs)
           /\ resolverTable' = IF auto THEN CacheIn(resolverTable, t.f) ELSE resolverTable
           /\ last' = IF auto /\ g # "ok"
                      THEN Outcome("rejected", "start", resolved, g, "auto")
                      ELSE Outcome("unheard", t.ev, t.f, "none", "timer")
    /\ emitState' = Emit(emitState, Head(timers).ev, Head(timers).f)
    /\ UNCHANGED <<dir, loadedPlugins, startedPlugins, dependencyTree, loadingQueue,
                   reevals, listeners, hookState, script>>
    /\ UNCHANGED outer

\* Two plugins are brought up, the second call once the loader is at rest
\* after the first; then, at rest again, the loader is destroyed.
DestroyScript(first, second) ==
    << {AtRest(CallOf("load", first, "started"))}, {AtRest(CallOf("load", second, "started"))},
       {AtRest(DestroyCall)} >>

\* The runs of destroy(): a root loader, and a child scope of a parent that
\* stays idle.
DestroyScenarios ==
    { [dir |-> <<FileB, FileC>>, scoped |-> FALSE, script |-> DestroyScript(FileB, FileC)],
      [dir |-> <<FileB, FileC>>, scoped |-> FALSE, script |-> DestroyScript(FileC, FileB)],
      [dir |-> <<FileB, FileC>>, scoped |-> TRUE, script |-> DestroyScript(FileB, FileC)] }

DestroyInit ==
    /\ \E scn \in DestroyScenarios :
          /\ dir = scn.dir
          /\ script = scn.script
          /\ parent = [NoParent EXCEPT !.ref = scn.scoped, !.heard = scn.scoped, !.dir = scn.dir]
    /\ Constructed

DestroyNext ==
    \/ \E c \in Offered : c.op = "load" /\ loadPlugin(c.id, c.tgt)
    \/ \E c \in Offered : c.op = "destroy" /\ Destroy
    \/ \E p \in Running : LoadDeps(p)
    \/ \E p \in Running : LoadEdges(p)
    \/ \E p \in Running : LoadHook(p)
    \/ \E p \in Running : LoadCommit(p)
    \/ \E p \in Running : Hook(p)
    \/ \E p \in Running : Commit(p)
    \/ \E p \in Running : DestroyCommit(p)
    \/ \E p \in Running : CascadeInfo(p)
    \/ \E r \in reevals : Reeval(r)
    \/ FireUp
    \/ FireDown
    \/ FireDeaf

DestroySpec == DestroyInit /\ [][DestroyNext]_vars

-----------------------------------------------------------------------------
(* The lookup operations of a loader *)

\* what a lookup leaves alone
looked == <<dir, loadedPlugins, startedPlugins, dependencyTree, loadingQueue,
            procs, timers, reevals, listeners, hookState, last, script,
            emitState, storage, parent, destroy, injection, container>>

\* the fileIDs and flags the lookups are called with
LookupIds == {<<"b">>, <<"c">>}

\* getPlugin(fileID, includeParent)
getPlugin(fileID, includeParent) ==
    /\ LET g == GetPlugin(resolverTable, fileID, includeParent)
       IN  answer' = [op |-> "getPlugin", arg |-> fileID, incl |-> includeParent,
                      from |-> g.from, val |-> g.f]
    /\ resolverTable' = CacheIn(resolverTable, fileID)
    /\ UNCHANGED looked

\* getLoadedPlugins(includeParent) / getStartedPlugins(includeParent) over the
\* keys `own` of the local map: concat returns a new array and leaves
\* `plugins` as it was, and the function returns `plugins`
PluginsIn(own, ofParent, includeParent) ==
    LET plugins == own
        concatenated == IF parent.ref /\ includeParent THEN plugins \cup ofParent
                        ELSE plugins
    IN  plugins

getLoadedPlugins(includeParent) ==
    /\ answer' = [op |-> "getLoadedPlugins", arg |-> NotFound, incl |-> includeParent,
                  from |-> "none",
                  val |-> PluginsIn(loadedPlugins, parent.loaded, includeParent)]
    /\ UNCHANGED <<looked, resolverTable>>

getStartedPlugins(includeParent) ==
    /\ answer' = [op |-> "getStartedPlugins", arg |-> NotFound, incl |-> includeParent,
                  from |-> "none",
                  val |-> PluginsIn(startedPlugins, parent.started, includeParent)]
    /\ UNCHANGED <<looked, resolverTable>>

\* isPluginLoaded(fileID, includeParent) as a call of its own
isPluginLoadedCall(fileID, includeParent) ==
    /\ answer' = [op |-> "isPluginLoaded", arg |-> fileID, incl |-> includeParent,
                  from |-> "none",
                  val |-> IsLoadedIn(PluginsIn(loadedPlugins, parent.loaded, includeParent),
                                     fileID)]
    /\ UNCHANGED <<looked, resolverTable>>

\* isPluginStarted(fileID, includeParent) as a call of its own
isPluginStartedCall(fileID, includeParent) ==
    /\ answer' = [op |-> "isPluginStarted", arg |-> fileID, incl |-> includeParent,
                  from |-> "none",
                  val |-> IsStartedIn(PluginsIn(startedPlugins, parent.started, includeParent),
                                      fileID)]
    /\ UNCHANGED <<looked, resolverTable>>

\* listPlugins(includeParent): the plugin files of the local directory; the
\* result of concat with the parent's list is dropped here too
listPlugins(includeParent) ==
    /\ answer' = [op |-> "listPlugins", arg |-> NotFound, incl |-> includeParent,
                  from |-> "none", val |-> ListPlugins]
    /\ UNCHANGED <<looked, resolverTable>>

-----------------------------------------------------------------------------
(* A child scope and its parent *)

\* the calls on the parent, as entries of a script
ParentCallOf(op, f) == [op |-> op, id |-> ShortId(f), tgt |-> "none", wait |-> FALSE]

ParentDestroyCall == [op |-> "parent.destroy", id |-> NotFound, tgt |-> "none", wait |-> FALSE]

\* One after the other, each at rest: the parent brings b up, the child loads
\* c, which depends on b; the parent takes b down, brings it back, takes it
\* away, is destroyed and is used once more.
OwnedByParentScript ==
    << {AtRest(ParentCallOf("parent.load", FileB))}, {AtRest(ParentCallOf("parent.start", FileB))},
       {AtRest(CallOf("load", FileC, "started"))},
       {AtRest(ParentCallOf("parent.stop", FileB))}, {AtRest(ParentCallOf("parent.start", FileB))},
       {AtRest(ParentCallOf("parent.stop", FileB))}, {AtRest(ParentCallOf("parent.unload", FileB))},
       {AtRest(ParentDestroyCall)}, {AtRest(ParentCallOf("parent.load", FileB))} >>

\* The child has b and c of its own when the parent brings its b up and takes
\* it down.
OwnedByBothScript ==
    << {AtRest(CallOf("load", FileB, "started"))}, {AtRest(CallOf("load", FileC, "started"))},
       {AtRest(ParentCallOf("parent.load", FileB))}, {AtRest(ParentCallOf("parent.start", FileB))},
       {AtRest(ParentCallOf("parent.stop", FileB))}, {AtRest(ParentCallOf("parent.unload", FileB))},
       {AtRest(ParentDestroyCall)} >>

\* the parent's plugin is not in the child's directory
ApartScript ==
    << {AtRest(ParentCallOf("parent.load", FileB))}, {AtRest(CallOf("load", FileC, "started"))},
       {AtRest(ParentDestroyCall)}, {AtRest(CallOf("load", FileC, "started"))} >>

\* calls on the parent and on the child in any order, none waiting for rest
MixedCalls ==
    {ParentCallOf("parent.load", FileB), ParentCallOf("parent.start", FileB),
     ParentDestroyCall, CallOf("load", FileC, "started")}

\* The runs of a child scope: its plugin directory, the parent's, and the
\* calls made on the two.
ScopeScenarios ==
    { [dir |-> <<FileB, FileC>>, pdir |-> <<FileB, FileC>>, script |-> OwnedByParentScript],
      [dir |-> <<FileB, FileC>>, pdir |-> <<FileB, FileC>>, script |-> OwnedByBothScript],
      [dir |-> <<FileC>>, pdir |-> <<FileB>>, script |-> ApartScript],
      [dir |-> <<FileB, FileC>>, pdir |-> <<FileB, FileC>>, script |-> Free(MixedCalls)] }

\* a loader constructed with the option `parent`: its listeners are on the
\* parent's emitter
ScopeInit ==
    /\ \E scn \in ScopeScenarios :
          /\ dir = scn.dir
          /\ script = scn.script
          /\ parent = [NoParent EXCEPT !.ref = TRUE, !.heard = TRUE, !.dir = scn.pdir]
    /\ Constructed

ScopeNext ==
    \/ \E c \in Offered : c.op = "load" /\ loadPlugin(c.id, c.tgt)
    \/ \E p \in Running : LoadDeps(p)
    \/ \E p \in Running : LoadEdges(p)
    \/ \E p \in Running : LoadHook(p)
    \/ \E p \in Running : LoadCommit(p)
    \/ \E p \in Running : Hook(p)
    \/ \E p \in Running : Commit(p)
    \/ \E p \in Running : CascadeInfo(p)
    \/ \E r \in reevals : Reeval(r)
    \/ FireUp
    \/ FireDown
    \/ \E c \in Offered : c.op = "parent.load" /\ ParentCall("load", c.id)
    \/ \E c \in Offered : c.op = "parent.start" /\ ParentCall("start", c.id)
    \/ \E c \in Offered : c.op = "parent.stop" /\ ParentCall("stop", c.id)
    \/ \E c \in Offered : c.op = "parent.unload" /\ ParentCall("unload", c.id)
    \/ \E c \in Offered : c.op = "parent.destroy" /\ ParentDestroy
    \/ \E c \in parent.calls : ParentCommit(c)
    \/ ParentFire
    \/ \E fileID \in LookupIds, incl \in BOOLEAN : getPlugin(fileID, incl)
    \/ \E incl \in BOOLEAN : getLoadedPlugins(incl)
    \/ \E incl \in BOOLEAN : getStartedPlugins(incl)
    \/ \E fileID \in LookupIds, incl \in BOOLEAN : isPluginLoadedCall(fileID, incl)
    \/ \E fileID \in LookupIds, incl \in BOOLEAN : isPluginStartedCall(fileID, incl)
    \/ \E incl \in BOOLEAN : listPlugins(incl)

ScopeSpec == ScopeInit /\ [][ScopeNext]_vars

-----------------------------------------------------------------------------
(* The resolver under changes of the plugin directory *)

\* Number of files the plugin directory holds at most while it changes.
MaxDir == 3

\* the files that come and go, and the identifiers resolved
ResolverFiles == {FileAt, FileCat, FileB, FileReadme}

ResolverIds == {<<"a", "t">>, <<"c", "a", "t">>, <<"B">>, FileCat}

\* resolvePluginFilename(fileID), called on its own: it returns the file name
\* (val) or throws FileNotFoundError (from)
Resolve(fileID) ==
    /\ answer' = [op |-> "resolve", arg |-> fileID, incl |-> FALSE,
                  from |-> IF ResolveIn(resolverTable, fileID) = NotFound THEN "FileNotFound"
                           ELSE "none",
                  val |-> ResolveIn(resolverTable, fileID)]
    /\ resolverTable' = CacheIn(resolverTable, fileID)
    /\ UNCHANGED <<dir, loadedPlugins, startedPlugins, dependencyTree, loadingQueue,
                   procs, timers, reevals, listeners, hookState, last, script,
                   emitState, storage, parent, destroy, injection, container>>

\* the directory as fs.readdir lists it after a file was added at place k
DirAdd(file, k) ==
    /\ Len(dir) < MaxDir
    /\ \A j \in 1..Len(dir) : dir[j] # file
    /\ dir' = SubSeq(dir, 1, k - 1) \o <<file>> \o SubSeq(dir, k, Len(dir))
    /\ answer' = NoAnswer
    /\ UNCHANGED <<resolverTable, loadedPlugins, startedPlugins, dependencyTree,
                   loadingQueue, procs, timers, reevals, listeners, hookState, last,
                   script, emitState, storage, parent, destroy, injection, container>>

\* the directory after the file at place k was removed
DirRemove(k) ==
    /\ dir' = SubSeq(dir, 1, k - 1) \o SubSeq(dir, k + 1, Len(dir))
    /\ answer' = NoAnswer
    /\ UNCHANGED <<resolverTable, loadedPlugins, startedPlugins, dependencyTree,
                   loadingQueue, procs, timers, reevals, listeners, hookState, last,
                   script, emitState, storage, parent, destroy, injection, container>>

ResolverInit == InitOf({[dir |-> <<>>, script |-> <<>>], [dir |-> <<FileCat>>, script |-> <<>>]})

ResolverNext ==
    \/ \E fileID \in ResolverIds : Resolve(fileID)
    \/ \E file \in ResolverFiles : \E k \in 1..(Len(dir) + 1) : DirAdd(file, k)
    \/ \E k \in 1..Len(dir) : DirRemove(k)

ResolverSpec == ResolverInit /\ [][ResolverNext]_vars

-----------------------------------------------------------------------------
(* The persisted boot state: getInitialPluginState, setInitialPluginState *)

\* the three boot states
BootStates == {"started", "loaded", "unloaded"}

\* A value of JavaScript: its type and, token by token, the literal that
\* denotes it (for a string: its characters).
Value(type, literal) == [t |-> type, v |-> literal]

Str(text) == Value("string", <<text>>)

Undefined == Value("undefined", <<>>)

\* the numbers JSON has no literal for
NotJson == {"NaN", "Infinity", "-Infinity"}

\* JSON.stringify(value): a string between quotes; null as null; in a number,
\* an array or an object every NaN and Infinity as null
Stringify(value) ==
    CASE value.t = "string" -> <<"\"">> \o value.v \o <<"\"">>
      [] value.t = "null"   -> <<"null">>
      [] OTHER              -> [k \in 1..Len(value.v) |->
                                  IF value.v[k] \in NotJson THEN "null" ELSE value.v[k]]

\* JSON.parse of a stored text; Undefined stands for the exception it throws
Parse(text) ==
    CASE text = <<>>                                  -> Undefined
      [] Head(text) = "\"" ->
           IF Len(text) >= 2 /\ text[Len(text)] = "\""
           THEN Value("string", SubSeq(text, 2, Len(text) - 1)) ELSE Undefined
      [] text = <<"null">>                            -> Value("null", <<>>)
      [] text \in {<<"true">>, <<"false">>}           -> Value("boolean", text)
      [] Head(text) = "[" -> IF text[Len(text)] = "]" THEN Value("array", text) ELSE Undefined
      [] Head(text) = "{" -> IF text[Len(text)] = "}" THEN Value("object", text) ELSE Undefined
      [] OTHER -> IF Len(text) = 1 /\ text[1] \notin NotJson THEN Value("number", text)
                  ELSE Undefined

\* a key that leaves the file name out
SharedKey(resolved) == <<"pluginstate_">>

\* "pluginstate_" + resolved
StateKey(resolved) == <<"pluginstate_">> \o resolved

\* a read that takes a stored null for a missing value
GetItemNullish(rows, keyName, defaultValue) ==
    LET item == IF keyName \in DOMAIN rows THEN Parse(rows[keyName]) ELSE Undefined
    IN  IF item # Undefined /\ item.t # "null" THEN item ELSE defaultValue

\* Storage.getItem(keyName, defaultValue) on the rows `rows`: the row's value
\* parsed, or the default when there is no row or the text does not parse
GetItem(rows, keyName, defaultValue) ==
    LET item == IF keyName \in DOMAIN rows THEN Parse(rows[keyName]) ELSE Undefined
    IN  IF item # Undefined THEN item ELSE defaultValue

\* Storage.setItem(keyName, keyValue): insert the row, or update its value
SetItem(rows, keyName, keyValue) ==
    [k \in (DOMAIN rows) \cup {keyName} |->
        IF k = keyName THEN Stringify(keyValue) ELSE rows[k]]

\* Storage.removeItem(keyName): delete the row
RemoveItem(rows, keyName) == [k \in (DOMAIN rows) \ {keyName} |-> rows[k]]

\* what getInitialPluginState returns for the file `resolved`
InitialStateOf(rows, resolved) ==
    Lower(GetItem(rows, StateKey(resolved), Str("started")).v[1])

getInitialPluginState(fileID) ==
    /\ LET resolved == ResolveIn(resolverTable, fileID)
       IN  answer' = [op |-> "getInitialPluginState", arg |-> fileID, incl |-> FALSE,
                      from |-> "none",
                      val |-> IF resolved = NotFound THEN "FileNotFound"
                              ELSE InitialStateOf(storage, resolved)]
    /\ resolverTable' = CacheIn(resolverTable, fileID)
    /\ UNCHANGED <<dir, loadedPlugins, startedPlugins, dependencyTree, loadingQueue,
                   procs, timers, reevals, listeners, hookState, last, script,
                   emitState, storage, parent, destroy, injection, container>>

setInitialPluginState(fileID, state) ==
    /\ LET resolved == ResolveIn(resolverTable, fileID)
       IN  /\ storage' = IF resolved = NotFound THEN storage
                          ELSE SetItem(storage, StateKey(resolved), Str(state))
           /\ answer' = [op |-> "setInitialPluginState", arg |-> fileID, incl |-> FALSE,
                          from |-> "none",
                          val |-> IF resolved = NotFound THEN "FileNotFound" ELSE state]
    /\ resolverTable' = CacheIn(resolverTable, fileID)
    /\ UNCHANGED <<dir, loadedPlugins, startedPlugins, dependencyTree, loadingQueue,
                   procs, timers, reevals, listeners, hookState, last, script,
                   emitState, parent, destroy, injection, container>>

\* what a call on the store leaves alone
kept == <<dir, resolverTable, loadedPlugins, startedPlugins, dependencyTree, loadingQueue,
          procs, timers, reevals, listeners, hookState, last, script, emitState,
          parent, destroy, injection, container>>

getItem(keyName, defaultValue) ==
    /\ answer' = [op |-> "getItem", arg |-> keyName, incl |-> FALSE, from |-> "none",
                  val |-> GetItem(storage, keyName, defaultValue)]
    /\ UNCHANGED <<kept, storage>>

setItem(keyName, keyValue) ==
    /\ storage' = SetItem(storage, keyName, keyValue)
    /\ answer' = NoAnswer
    /\ UNCHANGED kept

removeItem(keyName) ==
    /\ storage' = RemoveItem(storage, keyName)
    /\ answer' = NoAnswer
    /\ UNCHANGED kept

\* Storage.clear(): delete every row
clear ==
    /\ storage' = <<>>
    /\ answer' = NoAnswer
    /\ UNCHANGED kept

\* the keys and values the store is called with: numbers, among them NaN,
\* strings, among them one that reads like a literal, a boolean, null, an array
\* and an object
StoreKeys == {<<"k">>, <<"j">>}

StoreValues ==
    {Value("number", <<"1">>), Value("number", <<"NaN">>), Str("a"), Str("null"),
     Value("boolean", <<"true">>), Value("null", <<>>),
     Value("array", <<"[", "1", ",", "NaN", "]">>),
     Value("object", <<"{", "\"", "a", "\"", ":", "null", "}">>)}

\* the default values getItem is called with: none, or a string
StoreDefaults == {Undefined, Str("d")}

StoreInit == InitOf({[dir |-> <<>>, script |-> <<>>]})

StoreNext ==
    \/ \E k \in StoreKeys, d \in StoreDefaults : getItem(k, d)
    \/ \E k \in StoreKeys, v \in StoreValues : setItem(k, v)
    \/ \E k \in StoreKeys : removeItem(k)
    \/ clear

StoreSpec == StoreInit /\ [][StoreNext]_vars

-----------------------------------------------------------------------------
(* injectDependencies: the provisioning of third-party dependencies *)

\* the calls of injectDependencies made, one per load that reaches line 540
MaxInjects == 3

\* the `dependencies` blocks of the plugins that are loaded
InjectDeps == {{}, {"chalk"}, {"left-pad"}}

\* the steps of a call between `injectionPromise = new Promise` and cb()
InjectSection == {"read", "write", "remove", "install"}

\* what the calls of injectDependencies leave alone
apart == <<dir, resolverTable, loadedPlugins, startedPlugins, dependencyTree, loadingQueue,
           procs, timers, reevals, listeners, hookState, last, script, emitState,
           storage, answer, parent, destroy, container>>

\* call c assigns injectionPromise its own promise and goes on to fs.readFile
InjectEnter(inj, c) ==
    [inj EXCEPT !.promise = c,
                !.runs[c].pc = "read", !.runs[c].on = 0]

\* the calls that wait on the promise w, in the order they were made
RECURSIVE InjectWake(_, _, _)
InjectWake(inj, w, c) ==
    IF c > MaxInjects + 1 THEN inj
    ELSE IF c \in DOMAIN inj.runs /\ inj.runs[c].pc = "waiting" /\ inj.runs[c].on = w
         THEN InjectWake(InjectEnter(inj, c), w, c + 1)
         ELSE InjectWake(inj, w, c + 1)

\* finally { cb() }: the promise of call c resolves and, before anything else
\* runs, every call that awaits it goes on past line 108
InjectSettle(inj, c) ==
    InjectWake([inj EXCEPT !.settled = @ \cup {c}, !.runs[c].pc = "done"], c, 1)

\* injectDependencies(deps), up to its first await: with a promise in
\* injectionPromise the call awaits it, else it goes on at once
injectDependencies(c, deps) ==
    /\ c = Cardinality(DOMAIN injection.runs) + 1
    /\ c <= MaxInjects
    /\ LET made == [injection EXCEPT
                       !.runs = (c :> [pc |-> "waiting", on |-> injection.promise,
                                       deps |-> deps, copy |-> {}]) @@ @]
       IN  injection' = IF injection.promise = 0 THEN InjectEnter(made, c) ELSE made
    /\ UNCHANGED apart

\* the await of a promise that had resolved before the call was made
InjectResume(c) ==
    /\ c \in DOMAIN injection.runs
    /\ injection.runs[c].pc = "waiting"
    /\ injection.runs[c].on \in injection.settled
    /\ injection' = InjectEnter(injection, c)
    /\ UNCHANGED apart

\* package.json is read; without a missing entry the call is through
InjectRead(c) ==
    /\ c \in DOMAIN injection.runs
    /\ injection.runs[c].pc = "read"
    /\ injection' = IF injection.runs[c].deps \subseteq injection.manifest
                     THEN InjectSettle(injection, c)
                     ELSE [injection EXCEPT !.runs[c].pc = "write",
                                            !.runs[c].copy = injection.manifest \cup injection.runs[c].deps]
    /\ UNCHANGED apart

\* package.json is written back
InjectWrite(c) ==
    /\ c \in DOMAIN injection.runs
    /\ injection.runs[c].pc = "write"
    /\ injection' = [injection EXCEPT !.manifest = injection.runs[c].copy,
                                       !.runs[c].pc = "remove"]
    /\ UNCHANGED apart

\* package-lock.json is removed, `npm i` is started
InjectRemove(c) ==
    /\ c \in DOMAIN injection.runs
    /\ injection.runs[c].pc = "remove"
    /\ injection' = [injection EXCEPT !.runs[c].pc = "install"]
    /\ UNCHANGED apart

\* `npm i` has exited
InjectInstall(c) ==
    /\ c \in DOMAIN injection.runs
    /\ injection.runs[c].pc = "install"
    /\ injection' = InjectSettle(injection, c)
    /\ UNCHANGED apart

InjectInit == InitOf({[dir |-> <<>>, script |-> <<>>]})

InjectNext ==
    \/ \E c \in 1..MaxInjects : \E deps \in InjectDeps : injectDependencies(c, deps)
    \/ \E c \in 1..MaxInjects : InjectResume(c)
    \/ \E c \in 1..MaxInjects : InjectRead(c)
    \/ \E c \in 1..MaxInjects : InjectWrite(c)
    \/ \E c \in 1..MaxInjects : InjectRemove(c)
    \/ \E c \in 1..MaxInjects : InjectInstall(c)

InjectSpec == InjectInit /\ [][InjectNext]_vars

-----------------------------------------------------------------------------
(* CommandContainer (src/src/Commands.ts): commands and their aliases *)

\* the names the callers pass for a command or an alias
CommandInputs == {"", "a", "b", "B"}

\* the `aliases` argument of addCommand
AliasInputs == {<<>>, <<"a">>, <<"b">>, <<"b", "">>}

\* what the calls on the container leave alone
aside == <<dir, resolverTable, loadedPlugins, startedPlugins, dependencyTree, loadingQueue,
           procs, timers, reevals, listeners, hookState, last, script, emitState,
           storage, parent, destroy, injection>>

\* while (this.#commandAliases[command]) command = this.#commandAliases[command]:
\* the name the loop ends on, or "" when it does not end.  A chain that is
\* longer than the table has keys has come back to a name it was at.
RECURSIVE FollowAliases(_, _, _)
FollowAliases(aliases, command, steps) ==
    IF command \notin DOMAIN aliases THEN command
    ELSE IF steps = 0 THEN ""
    ELSE FollowAliases(aliases, aliases[command], steps - 1)

\* the name the alias loop of getCommand / removeCommand ends on
AliasTarget(aliases, command) ==
    FollowAliases(aliases, command, Cardinality(DOMAIN aliases))

\* what a call on the container returned or threw
CommandAnswer(op, command, val, from) ==
    [op |-> op, arg |-> <<command>>, incl |-> FALSE, val |-> val, from |-> from]

\* the alias table and the alias list after the forEach of addCommand
RECURSIVE AddAliases(_, _, _)
AddAliases(c, command, aliases) ==
    IF aliases = <<>> THEN c
    ELSE LET alias == Lower(Head(aliases))
         IN  IF Head(aliases) = "" THEN AddAliases(c, command, Tail(aliases))
             ELSE AddAliases([c EXCEPT
                                 !.commandAliases = (alias :> command) @@ @,
                                 !.aliasArray[command] = Append(@, alias)],
                             command, Tail(aliases))

addCommand(command, aliases) ==
    /\ container' =
          IF command = "" THEN container
          ELSE LET name == Lower(command)
                   fresh == [container EXCEPT
                                !.aliasArray = (name :> <<>>) @@ @,
                                !.hookedCommands = @ \cup {name}]
               IN  AddAliases([fresh EXCEPT !.aliasArray[name] = <<>>], name, aliases)
    /\ answer' = CommandAnswer("addCommand", command,
                               IF command = "" THEN "null" ELSE Lower(command), "returned")
    /\ UNCHANGED aside

\* removeCommand returns for a command that is hooked and dereferences
\* undefined for one that is not
removeCommand(command) ==
    /\ LET target == AliasTarget(container.commandAliases, Lower(command))
       IN  answer' = CASE command = "" -> CommandAnswer("removeCommand", command, "this", "returned")
                       [] target = "" -> CommandAnswer("removeCommand", command, "none", "hangs")
                       [] target \in container.hookedCommands ->
                            CommandAnswer("removeCommand", command, "this", "returned")
                       [] OTHER -> CommandAnswer("removeCommand", command, "none", "TypeError")
    /\ UNCHANGED <<aside, container>>

getCommand(command) ==
    /\ LET target == AliasTarget(container.commandAliases, Lower(command))
       IN  answer' = CASE command = "" -> CommandAnswer("getCommand", command, "null", "returned")
                       [] target = "" -> CommandAnswer("getCommand", command, "none", "hangs")
                       [] target \in container.hookedCommands ->
                            CommandAnswer("getCommand", command, target, "returned")
                       [] OTHER -> CommandAnswer("getCommand", command, "null", "returned")
    /\ UNCHANGED <<aside, container>>

addAliasToCommand(command, alias) ==
    LET name == Lower(command)
        known == name \in DOMAIN container.aliasArray
        skip == command = "" \/ alias = ""
        has == known /\ \E k \in 1..Len(container.aliasArray[name]) :
                            container.aliasArray[name][k] = Lower(alias)
    IN  /\ container' = IF skip \/ ~known \/ has THEN container
                         ELSE [container EXCEPT
                                  !.aliasArray[name] = Append(@, Lower(alias)),
                                  !.commandAliases = (Lower(alias) :> name) @@ @]
        /\ answer' = CommandAnswer("addAliasToCommand", command, "this",
                                   IF ~skip /\ ~known THEN "TypeError" ELSE "returned")
        /\ UNCHANGED aside

removeAliasFromCommand(command, alias) ==
    LET name == Lower(command)
        known == name \in DOMAIN container.aliasArray
        skip == command = "" \/ alias = ""
        list == IF known THEN container.aliasArray[name] ELSE <<>>
        at == {k \in 1..Len(list) : list[k] = Lower(alias)}
        first == CHOOSE k \in at : \A j \in at : k <= j
    IN  /\ container' = IF skip \/ ~known \/ at = {} THEN container
                         ELSE [container EXCEPT
                                  !.aliasArray[name] =
                                      SubSeq(list, 1, first - 1) \o SubSeq(list, first + 1, Len(list)),
                                  !.commandAliases =
                                      [x \in (DOMAIN @) \ {Lower(alias)} |-> @[x]]]
        /\ answer' = CommandAnswer("removeAliasFromCommand", command, "this",
                                   IF ~skip /\ ~known THEN "TypeError" ELSE "returned")
        /\ UNCHANGED aside

CommandInit == InitOf({[dir |-> <<>>, script |-> <<>>]})

CommandNext ==
    \/ \E command \in CommandInputs : \E aliases \in AliasInputs : addCommand(command, aliases)
    \/ \E command \in CommandInputs : removeCommand(command)
    \/ \E command \in CommandInputs : getCommand(command)
    \/ \E command, alias \in CommandInputs : addAliasToCommand(command, alias)
    \/ \E command, alias \in CommandInputs : removeAliasFromCommand(command, alias)

CommandSpec == CommandInit /\ [][CommandNext]_vars

\* A caller that takes b through its life cycle, one call after the other,
\* each once the loader is at rest.
CycleScript ==
    << {AtRest(CallOf("load", FileB, "none"))}, {AtRest(CallOf("start", FileB, "none"))},
       {AtRest(CallOf("stop", FileB, "none"))}, {AtRest(CallOf("unload", FileB, "none"))} >>

\* the identifiers the boot state is read and written by
StorageIds == {<<"B">>, <<"c">>, <<"nope">>}

StorageInit == InitOf({[dir |-> <<FileB, FileC>>, script |-> CycleScript]})

\* the calls of the caller and their steps, and reads and writes of the boot
\* state at any time in between
StorageNext ==
    \/ \E c \in Offered : c.op = "load" /\ loadPlugin(c.id, c.tgt)
    \/ \E c \in Offered : c.op = "start" /\ startPlugin(c.id)
    \/ \E c \in Offered : c.op = "stop" /\ stopPlugin(c.id)
    \/ \E c \in Offered : c.op = "unload" /\ unloadPlugin(c.id)
    \/ \E p \in Running : LoadDeps(p)
    \/ \E p \in Running : LoadEdges(p)
    \/ \E p \in Running : LoadHook(p)
    \/ \E p \in Running : LoadCommit(p)
    \/ \E p \in Running : Hook(p)
    \/ \E p \in Running : Commit(p)
    \/ FireUp
    \/ FireDown
    \/ \E fileID \in StorageIds : getInitialPluginState(fileID)
    \/ \E fileID \in StorageIds : \E state \in BootStates :
          setInitialPluginState(fileID, state)

StorageSpec == StorageInit /\ [][StorageNext]_vars

-----------------------------------------------------------------------------

TypeOK ==
    /\ loadedPlugins \subseteq AllFiles
    /\ startedPlugins \subseteq AllFiles
    /\ Len(script) <= Len(OwnedByParentScript)

-----------------------------------------------------------------------------
(* The claims of the specification *)

\* C1: in every reachable state every file name in `started` is in `loaded`,
\* whatever the interleaving of the lifecycle calls and the cascade's calls.
C1_StartedSubsetLoaded == startedPlugins \subseteq loadedPlugins

\* C2: the hooks a plugin sees follow load -> (start -> stop)* -> unload: no
\* hook is invoked from a state in which the state machine forbids it.
C2_HookOrder == \A f \in AllFiles : hookState[f] # "bad"

\* the answer the specification designates for a call on file f, by the
\* membership of f in `loaded` and `started`
Designated(op, f) ==
    CASE op = "load"   -> IF f \in loadedPlugins THEN "PluginAlreadyLoaded" ELSE "ok"
      [] op = "start"  -> IF f \notin loadedPlugins THEN "PluginNotLoaded"
                          ELSE IF f \in startedPlugins THEN "PluginAlreadyStarted" ELSE "ok"
      [] op = "stop"   -> IF f \notin loadedPlugins THEN "PluginNotLoaded"
                          ELSE IF f \notin startedPlugins THEN "PluginNotStarted" ELSE "ok"
      [] op = "unload" -> IF f \notin loadedPlugins THEN "PluginNotLoaded"
                          ELSE IF f \in startedPlugins THEN "PluginStillStarted" ELSE "ok"

\* C3: a lifecycle call made from a state where its guard is false is rejected
\* with the designated error: when the membership of the plugin in `loaded`
\* and `started` designates an error for the call, the call is rejected at its
\* guard with that error.
C3_DesignatedError ==
    (last.kind \in {"accepted", "rejected"} /\ Designated(last.op, last.f) # "ok")
        => (last.kind = "rejected" /\ last.err = Designated(last.op, last.f))

\* C4: a caller's call rejected with an illegal-state error has no effect: no
\* hook is invoked, `loaded`, `started`, the dependency graph and the queue are
\* unchanged, no event timer is set and no call is put in flight.
C4_RejectedNoEffect ==
    [][(last'.kind = "rejected" /\ last'.org = "user")
         => UNCHANGED <<loadedPlugins, startedPlugins, dependencyTree, loadingQueue,
                        hookState, timers, procs, reevals, listeners>>]_vars

C4_Rejected ==
    /\ last.kind = "rejected" /\ last.org = "user"
    /\ last.err \in {"PluginNotStarted", "PluginStillStarted"}
    /\ loadedPlugins # {}

\* C5: a.plugin.js declares pluginDependencies {B: "started"}.  When the
\* pluginStopped event of b.plugin.js is handled while a.plugin.js is started
\* (and nothing else of the loader is on its way), the loader's listener begins
\* to tear a.plugin.js down: it starts the handler that stops and unloads it.
C5_DependentTornDown ==
    [][(/\ timers # <<>>
        /\ Head(timers).ev = "pluginStopped" /\ Head(timers).f = FileB
        /\ FileA \in startedPlugins /\ FileA \in loadedPlugins
        /\ FileB \notin startedPlugins
        /\ Tail(timers) = <<>> /\ procs = <<>> /\ reevals = {}
        /\ timers' = Tail(timers))
          => \E p \in DOMAIN procs' : p.op = "cascade" /\ p.id = FileA]_vars

\* a load of file f is past its dependency check and ahead of its registration
PastCheck(f) ==
    \E p \in Running : p.op = "load" /\ p.f = f /\ p.pc \in {"edges", "hook", "commit"}

\* C6: the restoration of a dependent the cascade stopped and unloaded invokes
\* its load hook once: when the load re-submitted for it (target "started")
\* invokes the load hook, no other load the cascade re-submitted for that
\* plugin has invoked the hook and awaits its registration.
C6_RestoredOnce ==
    [][\A p \in Running :
          (p.org = "cascade" /\ p.tgt = "started" /\ LoadHook(p))
             => ~\E q \in Running : /\ q.op = "load" /\ q.org = "cascade"
                                     /\ q.f = p.f /\ q.pc = "commit"]_vars

\* C7: the handler of the cascade for a dependant whose meta sets
\* stayLoadedOnDependencyLoss leaves `loaded` and `started` as they are, invokes
\* no hook, sets no timer and issues no call (no stop, no unload, no load).
C7_StaysUntouched ==
    [][\A p \in Running :
          (MetaOf(p.f).stayLoadedOnDependencyLoss /\ CascadeInfo(p))
             => /\ UNCHANGED <<loadedPlugins, startedPlugins, hookState, timers,
                               loadingQueue>>
                /\ procs' = BagRemove(procs, p)]_vars

C7_Kept ==
    /\ last = Outcome("skipped", "cascade", FileK, "none", "cascade")
    /\ FileK \in startedPlugins /\ FileK \in loadedPlugins
    /\ hookState[FileK] = "started"
    /\ FileB \in loadedPlugins /\ FileB \notin startedPlugins
    /\ FileB \in DOMAIN dependencyTree
    /\ FileK \in DOMAIN dependencyTree[FileB]

\* C8: x.plugin.js declares the non-optional dependency {at: "started"}; its
\* load gets past the dependency check only in a state where at.plugin.js is
\* started, so it stays suspended as long as at.plugin.js is not started.
C8_StaysSuspended ==
    [][(~PastCheck(FileX) /\ PastCheck(FileX)') => FileAt \in startedPlugins]_vars

\* C9: o.plugin.js has one dependency, optional, on a plugin that does not
\* exist: its load is never suspended nor queued and never fails.
C9_OptionalLoads ==
    /\ \A p \in Running : (p.op = "load" /\ p.f = FileO) => p.pc # "suspended"
    /\ \A k \in 1..Len(loadingQueue) : FirstMatch(loadingQueue[k]) # FileO
    /\ ~(last.kind = "failed" /\ last.op = "load" /\ last.f = FileO)

C9_Loaded == FileO \in loadedPlugins /\ hookState[FileO] = "loaded"

\* C10: the load of v.plugin.js, whose apiVersion range the loader's version
\* does not satisfy, fails with ApiVersionMismatch at the dependency check and
\* leaves nothing: the plugin is in no map, no hook of it was invoked, no edge
\* and no queue entry names it, no event of it is set.
C10_NoPartialState ==
    /\ FileV \notin loadedPlugins \cup startedPlugins
    /\ hookState[FileV] = "unloaded"
    /\ \A k \in 1..Len(loadingQueue) : FirstMatch(loadingQueue[k]) # FileV
    /\ \A n \in DOMAIN dependencyTree : FileV \notin DOMAIN dependencyTree[n]
    /\ \A k \in 1..Len(timers) : timers[k].f # FileV
    /\ \A p \in Running : p.f = FileV => (p.op = "load" /\ p.pc = "deps" /\ p.i = 1)
    /\ (last.op = "load" /\ last.f = FileV /\ last.kind # "accepted")
          => (last.kind = "failed" /\ last.err = "ApiVersionMismatch")

C10_Mismatch == last = Outcome("failed", "load", FileV, "ApiVersionMismatch", "user")

\* C11: stop(id) of the management surface, called on a started plugin,
\* performs the stop transition: as the loader's stopPlugin does, the call
\* passes the guard of a stop and goes on to invoke the plugin's stop hook.
C11_ApiStopStops ==
    (/\ last.org = "api.stop"
     /\ last.f \in loadedPlugins /\ last.f \in startedPlugins)
       => (last.kind = "accepted" /\ last.op = "stop")

\* C19: for each file name the events the loader emits follow the order
\* pluginLoaded -> (pluginStarted -> pluginStopped)* -> pluginUnloaded of the
\* life cycle, whatever the calls: no event is emitted for a plugin that the
\* events emitted before leave in a state from which the life cycle does not
\* have it.  (Stated for the directory b.plugin.js, c.plugin.js, whose file
\* names do not contain one another.)
C19_EventOrder ==
    dir = <<FileB, FileC>> => \A f \in AllFiles : emitState[f] # "bad"

\* C20: no event is emitted within the call that causes the transition.  The
\* step in which a call updates the map and returns emits nothing and runs no
\* listener: it sets the event as the newest timer, which is pending when the
\* call has returned (a load whose hook rejected makes no transition and sets
\* no timer); and an event is only ever emitted by the oldest timer.
C20_EmittedLater ==
    [][/\ \A p \in Running :
            (LoadCommit(p) \/ Commit(p))
               => /\ emitState' = emitState
                  /\ reevals' = reevals
                  /\ \A q \in DOMAIN procs' : q.op = "cascade" => q \in DOMAIN procs
                  /\ IF p.op = "load" /\ LoadThrows(PluginOf(resolverTable, p.f))
                     THEN timers' = timers /\ loadedPlugins' = loadedPlugins
                     ELSE /\ Len(timers') = Len(timers) + 1
                          /\ SubSeq(timers', 1, Len(timers)) = timers
                          /\ timers'[Len(timers')].ev = EventFor(p.op)
                          /\ timers'[Len(timers')].f = p.f
       /\ emitState' # emitState => (timers # <<>> /\ timers' = Tail(timers))]_vars

\* the load of b.plugin.js has returned: the plugin is registered and its
\* pluginLoaded event is pending, not emitted
C20_Pending ==
    /\ FileB \in loadedPlugins
    /\ emitState[FileB] = "unloaded"
    /\ procs = <<>>
    /\ timers # <<>> /\ Head(timers).ev = "pluginLoaded" /\ Head(timers).f = FileB

C18_BootStateRoundTrip ==
    [][/\ \A f \in AllFiles :
            StateKey(f) \notin DOMAIN storage => InitialStateOf(storage, f) = "started"
       /\ \A fileID \in StorageIds : \A state \in BootStates :
            (setInitialPluginState(fileID, state) /\ ResolveIn(resolverTable, fileID) # NotFound)
               => LET resolved == ResolveIn(resolverTable, fileID)
                  IN  /\ InitialStateOf(storage', resolved) = state
                      /\ \A g \in AllFiles \ {resolved} :
                            InitialStateOf(storage', g) = InitialStateOf(storage, g)
       /\ \A fileID \in StorageIds :
            (getInitialPluginState(fileID) /\ ResolveIn(resolverTable, fileID) # NotFound)
               => /\ answer'.val = InitialStateOf(storage, ResolveIn(resolverTable, fileID))
                  /\ storage' = storage
       /\ storage' # storage
            => \E fileID \in StorageIds : \E state \in BootStates :
                  setInitialPluginState(fileID, state)]_vars

\* b.plugin.js is started, and its boot state, written as "unloaded" while the
\* one of c.plugin.js was written as "loaded", was just read back
C18_ReadBack ==
    /\ answer = [op |-> "getInitialPluginState", arg |-> <<"B">>, incl |-> FALSE,
                 from |-> "none", val |-> "unloaded"]
    /\ InitialStateOf(storage, FileC) = "loaded"
    /\ FileB \in startedPlugins


\* C12: in a child scope whose parent has b loaded and which has not loaded b
\* itself (the two scopes reading the same plugin directory), getPlugin("b",
\* true) returns the parent's loaded instance and getPlugin("b", false) fails
\* with FileNotFoundError.
C12_GetPluginScoped ==
    [][\A incl \in BOOLEAN :
          (/\ getPlugin(<<"b">>, incl)
           /\ parent.ref /\ dir = parent.dir
           /\ FileB \in parent.loaded /\ FileB \notin loadedPlugins)
             => answer'.from = (IF incl THEN "parent" ELSE "FileNotFound")]_vars


\* C13: in a child scope the lookups called with includeParent=true return
\* the local entries together with the parent's, and isPluginLoaded /
\* isPluginStarted answer true for a plugin loaded / started only in the
\* parent; called with includeParent=false they reflect the local scope only.
C13_LookupsFallThrough ==
    [][\A incl \in BOOLEAN :
          LET L == IF incl THEN loadedPlugins \cup parent.loaded ELSE loadedPlugins
              S == IF incl THEN startedPlugins \cup parent.started ELSE startedPlugins
          IN  parent.ref =>
                /\ getLoadedPlugins(incl) => answer'.val = L
                /\ getStartedPlugins(incl) => answer'.val = S
                /\ \A fileID \in LookupIds :
                      /\ isPluginLoadedCall(fileID, incl) => answer'.val = IsLoadedIn(L, fileID)
                      /\ isPluginStartedCall(fileID, incl) => answer'.val = IsStartedIn(S, fileID)]_vars


\* C14: a plugin of the child that depends on a plugin owned by the parent is
\* treated as if the dependency were local: once b is started in the parent
\* and the child has come to rest, the load of c (which requires b started)
\* is not left waiting in the child's queue.
C14_ParentDependencyResumes ==
    (Quiet /\ parent.ref /\ FileB \in parent.started)
        => \A p \in Running : ~(p.op = "load" /\ p.f = FileC /\ p.pc = "suspended")


\* C15: once the parent is destroyed the child is a root scope: its parent
\* reference is cleared, no event of the former parent is emitted again by the
\* child, and a lookup with includeParent=true does not consult the former
\* parent.
C15_DetachedFromParent ==
    parent.phase = "destroyed" =>
        /\ ~parent.ref
        /\ last.kind # "reemitted"
        /\ \A fileID \in LookupIds :
              GetPlugin(resolverTable, fileID, TRUE) = GetPlugin(resolverTable, fileID, FALSE)

\* the former parent emits an event that the child, a root scope now, does not
\* hear, and the child answers getPlugin("b") for a plugin that is loaded in
\* the former parent with a module of its own
C15_FormerParentUnheard ==
    /\ parent.phase = "destroyed"
    /\ last.kind = "unheard"
    /\ FileB \in parent.loaded
    /\ answer.op = "getPlugin" /\ answer.incl /\ answer.arg = <<"b">>
    /\ answer.from = "import"


\* C16: when destroy() resolves, the started and the loaded map are empty,
\* no plugin had a stop or unload hook invoked out of turn (each plugin that
\* was started was stopped once, each that was loaded was unloaded once), and
\* the loader's listeners are off its parent.
C16_DestroyTearsDown ==
    [][(destroy.phase # "resolved" /\ destroy'.phase = "resolved")
          => /\ loadedPlugins' = {} /\ startedPlugins' = {}
             /\ \A f \in AllFiles : hookState'[f] # "bad"
             /\ ~parent'.heard]_vars


\* whether JSON has a literal for every number in the value
JsonValue(value) == value.t = "string" \/ \A k \in 1..Len(value.v) : value.v[k] \notin NotJson

\* C21 (as stated): getItem(k) returns the value of the last setItem(k, v),
\* for every number, string, boolean, null, array and object v, whatever the
\* default; it returns the default for a key that was removed or cleared; and
\* a write or a removal leaves the other keys as they read before.
C21_ReadsBackAnyValue ==
    [][\A k \in StoreKeys, d \in StoreDefaults :
          /\ \A v \in StoreValues : setItem(k, v) => GetItem(storage', k, d) = v
          /\ removeItem(k) => GetItem(storage', k, d) = d
          /\ clear => GetItem(storage', k, d) = d
          /\ \A j \in StoreKeys \ {k} :
                ((\E v \in StoreValues : setItem(k, v)) \/ removeItem(k))
                   => GetItem(storage', j, d) = GetItem(storage, j, d)
          /\ getItem(k, d) => (answer'.val = GetItem(storage, k, d) /\ storage' = storage)]_vars

\* C21 (amended): the same for every value JSON has a literal for, a stored
\* null being returned as null; a NaN or an Infinity reads back as null.
C21_ReadsBackJsonValue ==
    [][\A k \in StoreKeys, d \in StoreDefaults :
          /\ \A v \in StoreValues :
                setItem(k, v) => GetItem(storage', k, d) = Parse(Stringify(v))
          /\ \A v \in {x \in StoreValues : JsonValue(x)} :
                setItem(k, v) => GetItem(storage', k, d) = v
          /\ removeItem(k) => GetItem(storage', k, d) = d
          /\ clear => GetItem(storage', k, d) = d
          /\ \A j \in StoreKeys \ {k} :
                ((\E v \in StoreValues : setItem(k, v)) \/ removeItem(k))
                   => GetItem(storage', j, d) = GetItem(storage, j, d)
          /\ getItem(k, d) => (answer'.val = GetItem(storage, k, d) /\ storage' = storage)]_vars

\* a stored null was read with a default at hand and came back as null, while
\* the other key holds an object
C21_NullReadBack ==
    /\ answer.op = "getItem" /\ answer.arg = <<"k">>
    /\ answer.val = Value("null", <<>>)
    /\ <<"k">> \in DOMAIN storage
    /\ GetItem(storage, <<"k">>, Str("d")) = Value("null", <<>>)
    /\ <<"j">> \in DOMAIN storage /\ Parse(storage[<<"j">>]).t = "object"


\* C22: whenever the load hook or the start hook of a plugin is invoked, each
\* of its declared non-optional dependencies is at that moment in its required
\* state.
C22_DependenciesHoldAtHook ==
    [][\A p \in Running :
          (LoadHook(p) \/ (p.op = "start" /\ Hook(p)))
             => LET deps == MetaOf(PluginOf(resolverTable, p.f)).pluginDependencies
                IN  \A k \in 1..Len(deps) :
                       deps[k].optional
                       \/ IF deps[k].state = "started" THEN isPluginStarted(deps[k].name)
                          ELSE isPluginLoaded(deps[k].name)]_vars


\* C23: a load of a plugin with a declared non-optional dependency that cannot
\* be resolved (or whose version does not fit) is never suspended: wherever
\* that dependency stands in the declaration and whatever the state of the
\* other dependencies, no entry of that plugin waits in the queue.
C23_UnresolvableNeverWaits ==
    \A p \in Running :
        p.pc = "suspended" =>
            LET deps == MetaOf(PluginOf(resolverTable, p.f)).pluginDependencies
            IN  \A k \in 1..Len(deps) :
                   deps[k].optional
                   \/ (/\ FirstMatch(deps[k].name) # NotFound
                       /\ Satisfies(MetaOf(FirstMatch(deps[k].name)).version, deps[k].version))


\* C24: while b stays loaded, its dependant l, which requires b only loaded,
\* keeps its membership in the loaded and the started map, has no stop or
\* unload hook invoked and is not queued again, whatever event of b is handled.
C24_LoadedDependantKept ==
    [][(dir = <<FileB, FileL>> /\ FileB \in loadedPlugins /\ FileB \in loadedPlugins')
          => /\ FileL \in loadedPlugins => FileL \in loadedPlugins'
             /\ FileL \in startedPlugins => FileL \in startedPlugins'
             /\ hookState[FileL] = "started" => hookState'[FileL] = "started"
             /\ hookState[FileL] = "loaded" => hookState'[FileL] \in {"loaded", "started"}
             /\ FileL \in loadedPlugins => loadingQueue' = loadingQueue]_vars

\* b was stopped and is still loaded; the handler of its pluginStopped event
\* has just left the started l alone
C24_StoppedOnly ==
    /\ FileB \in loadedPlugins /\ FileB \notin startedPlugins
    /\ FileL \in startedPlugins
    /\ last = Outcome("skipped", "cascade", FileL, "none", "cascade")


\* C25: when the handling of an event that found its plugin fully unloaded
\* finishes, the graph has no entry for that plugin, also when the handling of
\* one of its dependants failed; the handling of an event that found the
\* plugin still loaded leaves its entry in place.
C25_EntryRemovedOnUnload ==
    [][\A lid \in DOMAIN listeners :
          lid \notin DOMAIN listeners'
             => IF listeners[lid].unl
                THEN listeners[lid].f \notin DOMAIN dependencyTree'
                ELSE listeners[lid].f \in DOMAIN dependencyTree
                        => listeners[lid].f \in DOMAIN dependencyTree']_vars


\* C26: the graph is keyed by the resolved file name of the dependency: for
\* every loaded plugin and each of its declared dependencies that is loaded
\* too, the graph holds the edge from the dependency's file name to the
\* plugin with the required state, once the loader is at rest.
C26_KeyedByFilename ==
    Quiet =>
        \A f \in loadedPlugins :
            LET deps == MetaOf(f).pluginDependencies
            IN  \A k \in 1..Len(deps) :
                   LET key == FirstMatch(deps[k].name)
                   IN  (key # NotFound /\ key \in loadedPlugins)
                          => /\ key \in DOMAIN dependencyTree
                             /\ f \in DOMAIN dependencyTree[key]
                             /\ dependencyTree[key][f] = deps[k].state


\* C27: every dependant named in an edge of the graph is a plugin that was
\* loaded when the edge was created: with plugins that are never unloaded
\* (directory b, t), the dependants of the graph are loaded plugins once the
\* loader is at rest.
C27_EdgesOfLoadedPlugins ==
    (dir = <<FileB, FileT>> /\ Quiet)
        => \A key \in DOMAIN dependencyTree :
              \A d \in DOMAIN dependencyTree[key] : d \in loadedPlugins


\* whether every non-optional dependency that plugin f declares is in its
\* required state, in this scope or in its parent
AllMet(f) ==
    LET deps == MetaOf(f).pluginDependencies
        L == IF parent.ref THEN loadedPlugins \cup parent.loaded ELSE loadedPlugins
        S == IF parent.ref THEN startedPlugins \cup parent.started ELSE startedPlugins
    IN  \A k \in 1..Len(deps) :
           \/ deps[k].optional /\ FirstMatch(deps[k].name) = NotFound
           \/ FirstMatch(deps[k].name) \in (IF deps[k].state = "started" THEN S ELSE L)

\* C28: no wake-up is lost: once the events, the loader's own and those
\* forwarded from its parent, are handled and the loader is at rest, no load
\* is left suspended whose dependencies are all in their required state.
C28_NoLostWakeUp ==
    Quiet => \A p \in Running : p.pc = "suspended" => ~AllMet(p.f)

\* C29: the suspension queue holds exactly the load calls that are blocked:
\* every entry of the queue belongs to a load that is suspended on it (an
\* entry whose load has resumed is gone from the queue).
C29_QueueOfBlockedLoads ==
    \A q \in 1..Len(loadingQueue) :
        \E p \in Running : p.op = "load" /\ p.pc = "suspended" /\ p.q = q

\* C30: the plugins p and q require each other (a dependency cycle): the
\* load hooks of p and q are never invoked, no call of the loader fails, and
\* a load of p or q that is suspended stays suspended, whatever events the
\* listeners re-evaluate it on.
C30_CycleSuspendsForever ==
    /\ [](dir = <<FileB, FileP, FileQ>>
            => /\ hookState[FileP] = "unloaded" /\ hookState[FileQ] = "unloaded"
               /\ last.kind \notin {"failed", "rejected"})
    /\ [][\A p \in Running :
              (p.pc = "suspended" /\ p.f \in {FileP, FileQ}) => p \in DOMAIN procs']_vars

\* the loads of p and q are both suspended after b has been loaded and
\* started and its events have been handled
C30_CycleAtRest ==
    /\ script = <<>> /\ Quiet
    /\ FileB \in startedPlugins /\ emitState[FileB] = "started"
    /\ {p.f : p \in Running} = {FileP, FileQ}

\* C31: a load with target state `started` is followed at once by the start of
\* the plugin: when its pluginLoaded event is emitted, startPlugin is accepted
\* for the same plugin (its start hook is the next hook of the plugin); the
\* event of a load with no target state starts no call.
C31_StartFollowsLoad ==
    [][(FireUp /\ Head(timers).ev = "pluginLoaded")
          => IF Head(timers).tgt = "started"
             THEN \E p \in DOMAIN procs' :
                     /\ p.op = "start" /\ p.org = "auto" /\ p.f = Head(timers).f
                     /\ p \notin DOMAIN procs
                     /\ hookState[p.f] = "loaded"
             ELSE procs' = procs]_vars

\* C32: provisioning is single-flight: at most one call of injectDependencies
\* is between its assignment of injectionPromise and its cb() at any time.
C32_SingleFlight ==
    \A c, d \in DOMAIN injection.runs :
        (injection.runs[c].pc \in InjectSection /\ injection.runs[d].pc \in InjectSection)
            => c = d

\* C33: the failure of the cascade handling of one dependant is caught on its
\* own: it never makes the Promise.all of the listener run reject, so no
\* listener run is marked failed while the handlers of siblings are in flight.
C33_FailureCaughtPerDependant ==
    \A lid \in DOMAIN listeners : ~listeners[lid].failed

\* C34: at most one load of a plugin is pending at any time: the listeners
\* never leave two loads of the same file name, both re-submitted by the
\* cascade, suspended or in progress together.
C34_OnePendingLoad ==
    \A p, r \in Running :
        (/\ p.op = "load" /\ r.op = "load" /\ p.f = r.f
         /\ p.org = "cascade" /\ r.org = "cascade")
            => (p = r /\ procs[p] = 1)

\* C35: the cascade never loads a plugin that was not loaded when the
\* dependency was lost: a handler re-submits a load at once (without a stop
\* or an unload before it) only for a dependant that has a call in flight,
\* never for a plugin (one whose load hook succeeds) that is unloaded and has
\* no pending load.
C35_NoLoadOfWithdrawn ==
    [][\A p \in Running :
          (/\ CascadeInfo(p)
           /\ ~LoadThrows(p.f)
           /\ \E r \in DOMAIN procs' :
                 /\ r.op = "load" /\ r.f = p.f /\ r.org = "cascade"
                 /\ (r \in DOMAIN procs => procs'[r] > procs[r]))
              => \/ p.f \in loadedPlugins
                 \/ \E r \in Running : r.op \in {"load", "stop", "unload"} /\ r.f = p.f]_vars

\* C36: the state queries are exact per file name: for a file f of the plugin
\* directory, isPluginLoaded(f) / isPluginStarted(f) is true only if f itself
\* is a key of the loaded / started map.
C36_ExactQueries ==
    \A k \in 1..Len(dir) :
        /\ isPluginLoaded(dir[k]) => dir[k] \in loadedPlugins
        /\ isPluginStarted(dir[k]) => dir[k] \in startedPlugins

\* C37: the resolver is idempotent on its own results: when an identifier is
\* resolved to the file name f and f is a file of the directory, resolving f
\* returns f.
C37_ResolveIdempotent ==
    \A id \in DOMAIN resolverTable :
        (\E k \in 1..Len(dir) : dir[k] = resolverTable[id])
            => ResolveIn(resolverTable, resolverTable[id]) = resolverTable[id]

\* C38: handling the pluginStopped or pluginUnloaded event of a plugin with
\* no entry in the dependency graph completes without error: the listener
\* never fails.
C38_NoEntryNoError ==
    ~(last.kind = "failed" /\ last.op = "listener")

\* C39: the pluginStopped / pluginUnloaded events of the plugins that
\* destroy() takes down are emitted while the listeners are still attached:
\* none of them is emitted after removeAllListeners, unheard.
C39_TeardownEventsHeard ==
    ~(last.kind = "unheard" /\ last.op \in {"pluginStopped", "pluginUnloaded"})

\* C40: command lookup terminates: after any sequence of addCommand,
\* addAliasToCommand and removeAliasFromCommand calls, getCommand and
\* removeCommand return (or throw) for every name; the alias loop never hangs.
C40_LookupTerminates ==
    answer.op \in {"getCommand", "removeCommand"} => answer.from # "hangs"

=============================================================================
